---- MODULE Spec2Model ----
(***************************************************************************)
(* Loan / LP alert bot: the alert engine (monitoring/alertEngine.js), the  *)
(* loan monitor (monitoring/loanMonitor.js), the monitor scheduler         *)
(* (events/onReady.js) and the position discovery scripts                  *)
(* (dev/discover_lp_positions.js, dev/discover_loan_positions.js).         *)
(*                                                                         *)
(* Numbers that are fractions in the program (buffer fractions, interest   *)
(* rates, thresholds) are integers here, in thousandths (per mille).       *)
(***************************************************************************)
EXTENDS Integers, Sequences, FiniteSets, TLC

VARIABLES
  env,              \* process.env as read at module load (thresholds, minimum tiers)
  alertState,       \* alertEngine.js: const alertState = new Map()
  calls,            \* history: every processAlert call of the handler commands, in order
  last,             \* history: the processAlert calls of the latest monitoring step
  liqTrace,         \* history: per loan pass, the buffer read and what the engine did
  classified,       \* history: the latest call of a tier classifier and what it returned
  evaluated,        \* history: per row of the latest loan pass, what was read and submitted
  discord,          \* what require('../index') and the Discord API answer to sendDm
  startup,          \* the process: loading its configuration, exited, or running
  dmTasks,          \* the sendDm invocations started so far, each with where it is
  inbox,            \* history: the DMs the user received, in the order of arrival
  isMonitorRunning, \* onReady.js: let isMonitorRunning
  passes,           \* onReady.js: the async monitor invocations in flight, id -> position
  tickNo,           \* history: scheduler ticks seen so far
  tickLog,          \* history: what each tick did
  hbRunning,        \* onReady.js: heartbeat callbacks in flight
  lastPass,         \* history: how the pass that ended last went
  stateFile,        \* data/lp_scan_state.json: protocol -> lastScannedBlock
  lpState,          \* discover script: the in-memory scan state of the running script
  scanPc,           \* discover script: where main() is
  todo,             \* discover script: the contracts main() has still to scan
  runStart,         \* history: the stored checkpoints when the running script loaded them
  queries,          \* history: the getLogs calls of the latest discoverFor...Contract
  runNo,            \* history: discovery runs started so far
  onChain,          \* the chain as the provider answers: Transfer logs and current owners
  discArgs,         \* the arguments discoverTokenIdsForOwner is called with
  discovered,       \* history: the calls of discoverTokenIdsForOwner, in order
  addressesCsv,     \* data/addresses.csv: the FLR owner addresses, in file order
  positionsCsv,     \* the position store (cfg.outputCsv): its rows, in file order
  storeLog          \* history: what the discovery runs did, in order

vars == <<env, alertState, calls, last, liqTrace, classified, evaluated, discord, startup,
          dmTasks, inbox,
          isMonitorRunning,
          passes,
          tickNo, tickLog, hbRunning, lastPass, stateFile, lpState, scanPc, todo, runStart, queries,
          runNo, onChain, discArgs, discovered, addressesCsv, positionsCsv, storeLog>>

engineVars == <<alertState, calls, last, liqTrace, classified, evaluated, discord, startup,
               dmTasks, inbox>>
schedVars == <<isMonitorRunning, passes, tickNo, tickLog, hbRunning, lastPass>>
scanVars == <<stateFile, lpState, scanPc, todo, runStart, queries, runNo, onChain, discArgs,
              discovered, addressesCsv, positionsCsv, storeLog>>
storeVars == <<addressesCsv, positionsCsv, storeLog>>

-----------------------------------------------------------------------------
(* Bounds of the model *)

MaxCalls == 4
MaxPasses == 4
MaxTicks == 3
MaxHeartbeats == 1
MaxRuns == 2
MaxDiscoveries == 2

-----------------------------------------------------------------------------
(* alertEngine.js *)

\* null: as a signature the empty serialisation, as an optional number <<>>
Null == <<>>

LIQ_TIER_ORDER == <<"LOW", "MEDIUM", "HIGH", "CRITICAL", "UNKNOWN">>
REDEMP_TIER_ORDER == <<"LOW", "NEUTRAL", "MEDIUM", "HIGH", "UNKNOWN">>

\* buildAlertKey: `${type}:${protocol}:${wallet}:${positionId}`
buildAlertKey(type, protocol, wallet, positionId) == <<type, protocol, wallet, positionId>>

\* makeSignature: sha256 of JSON.stringify(payload). The payload is the sequence of
\* its (field, value) pairs, as JSON.stringify writes them; the digest is taken to be
\* collision free, so it is the tagged serialisation itself.
makeSignature(payload) == <<"sha256">> \o payload

\* alertState.get(key) || { isActive: false, signature: null }
PrevRecord(st, key) ==
  IF key \in DOMAIN st THEN st[key] ELSE [isActive |-> FALSE, signature |-> Null]

MapSet_OnlyKey(f, k, v) == [x \in {k} |-> v]

\* alertState.set(key, rec)
MapSet(st, key, rec) == [k \in (DOMAIN st) \cup {key} |-> IF k = key THEN rec ELSE st[k]]

\* if (isActive && !prev.isActive)
IsNewAlert(isActive, prev) == isActive /\ ~prev.isActive

IsUpdatedAlert_NoDedup(isActive, prev, signature) == isActive /\ prev.isActive

\* if (isActive && prev.isActive && prev.signature !== signature)
IsUpdatedAlert(isActive, prev, signature) ==
  isActive /\ prev.isActive /\ prev.signature # signature

\* if (isActive && prev.isActive && prev.signature === signature)
IsUnchangedAlert(isActive, prev, signature) ==
  isActive /\ prev.isActive /\ prev.signature = signature

\* if (!isActive && prev.isActive)
IsResolvedAlert(isActive, prev) == ~isActive /\ prev.isActive

UpdatedRecord_StaleSignature(prev, signature) ==
  [isActive |-> TRUE, signature |-> prev.signature]

\* alertState.set(key, { isActive: true, signature }) of the UPDATED branch
UpdatedRecord(prev, signature) == [isActive |-> TRUE, signature |-> signature]

ResolvedRecord_KeepsSignature(prev) == [isActive |-> FALSE, signature |-> prev.signature]

\* alertState.set(key, { isActive: false, signature: null })
ResolvedRecord(prev) == [isActive |-> FALSE, signature |-> Null]

\* processAlert: the new map, and the record of the call: dm is the phase of the
\* sendDm call it made ("NEW", "UPDATED"), or "NONE" when it made none.
processAlert(st, key, isActive, signaturePayload, alertType, tier) ==
  LET signature == makeSignature(signaturePayload)
      prev == PrevRecord(st, key)
      out(newSt, dm) ==
        [state |-> newSt,
         call |-> [key |-> key, alertType |-> alertType, tier |-> tier,
                   isActive |-> isActive, signature |-> signature,
                   prev |-> prev, after |-> PrevRecord(newSt, key),
                   stored |-> key \in DOMAIN newSt, dm |-> dm]]
  IN  IF IsNewAlert(isActive, prev)
        THEN out(MapSet(st, key, [isActive |-> TRUE, signature |-> signature]), "NEW")
      ELSE IF IsUpdatedAlert(isActive, prev, signature)
        THEN out(MapSet(st, key, UpdatedRecord(prev, signature)), "UPDATED")
      ELSE IF IsUnchangedAlert(isActive, prev, signature)
        THEN out(st, "NONE")
      ELSE IF IsResolvedAlert(isActive, prev)
        THEN out(MapSet(st, key, ResolvedRecord(prev)), "NONE")
      ELSE out(st, "NONE")

\* handleLiquidationAlert(data): signaturePayload = { tier }
handleLiquidationAlert(st, data) ==
  processAlert(st, buildAlertKey("LIQUIDATION", data.protocol, data.wallet, data.positionId),
               data.isActive, <<<<"tier", data.tier>>>>, "LIQUIDATION", data.tier)

\* handleRedemptionAlert(data): signaturePayload = { tier }
handleRedemptionAlert(st, data) ==
  processAlert(st, buildAlertKey("REDEMPTION", data.protocol, data.wallet, data.positionId),
               data.isActive, <<<<"tier", data.tier>>>>, "REDEMPTION", data.tier)

handleLpRangeAlert_SignsTicks(st, data) ==
  processAlert(st, buildAlertKey("LP_RANGE", data.protocol, data.wallet, data.positionId),
               data.isActive,
               <<<<"currentStatus", data.currentStatus>>, <<"lpRangeTier", data.lpRangeTier>>,
                 <<"currentTick", data.currentTick>>>>,
               "LP_RANGE", data.lpRangeTier)

\* handleLpRangeAlert(data): signaturePayload = { currentStatus, lpRangeTier }
handleLpRangeAlert(st, data) ==
  processAlert(st, buildAlertKey("LP_RANGE", data.protocol, data.wallet, data.positionId),
               data.isActive,
               <<<<"currentStatus", data.currentStatus>>, <<"lpRangeTier", data.lpRangeTier>>>>,
               "LP_RANGE", data.lpRangeTier)

-----------------------------------------------------------------------------
(* loanMonitor.js *)

\* order.indexOf(x): the 0-based position, -1 when absent
IndexOf(order, x) ==
  IF \E i \in 1..Len(order) : order[i] = x
    THEN (CHOOSE i \in 1..Len(order) : order[i] = x) - 1
    ELSE -1

\* isTierAtLeast(tier, minTier, order); an empty tier reads as 'UNKNOWN'
isTierAtLeast(tier, minTier, order) ==
  LET idx == IndexOf(order, IF tier = "" THEN "UNKNOWN" ELSE tier)
      minIdx == IndexOf(order, IF minTier = "" THEN "UNKNOWN" ELSE minTier)
  IN  IF idx = -1 \/ minIdx = -1 THEN FALSE ELSE idx >= minIdx

getOraclePrice_LastGoodFirst(feed) ==
  IF feed.lastGoodPrice.ok /\ feed.lastGoodPrice.price # 0
    THEN feed.lastGoodPrice.price
  ELSE IF feed.fetchPrice.ok /\ feed.fetchPrice.valid /\ feed.fetchPrice.price # 0
    THEN feed.fetchPrice.price
  ELSE IF feed.fetchRedemptionPrice.ok /\ feed.fetchRedemptionPrice.valid
          /\ feed.fetchRedemptionPrice.price # 0
    THEN feed.fetchRedemptionPrice.price
  ELSE 0

\* A price feed call: it throws (ok = FALSE) or returns a raw price and a validity flag.
\* getOraclePrice: fetchPrice(), then lastGoodPrice(), then fetchRedemptionPrice();
\* the raw price of the first that answers with a non-zero (and valid) price, 0 for null.
getOraclePrice(feed) ==
  IF feed.fetchPrice.ok /\ feed.fetchPrice.valid /\ feed.fetchPrice.price # 0
    THEN feed.fetchPrice.price
  ELSE IF feed.lastGoodPrice.ok /\ feed.lastGoodPrice.price # 0
    THEN feed.lastGoodPrice.price
  ELSE IF feed.fetchRedemptionPrice.ok /\ feed.fetchRedemptionPrice.valid
          /\ feed.fetchRedemptionPrice.price # 0
    THEN feed.fetchRedemptionPrice.price
  ELSE 0

\* An optional number is <<>> (null) or <<n>>.
Some(n) == <<n>>

\* inferBranchKeyFromProtocol: 'FXRP' or 'WFLR' when the protocol name holds it, else null ("")
inferBranchKeyFromProtocol(protocol) ==
  CASE protocol = "ENOSYS_LOAN_FXRP" -> "FXRP"
    [] protocol = "ENOSYS_LOAN_WFLR" -> "WFLR"
    [] OTHER -> ""

\* getGlobalInterestRatePctFromMap: null when the map (ok = FALSE: the fetch failed) or
\* the branch's rate is missing
getGlobalInterestRatePctFromMap(protocol, globalIrMap) ==
  LET branchKey == inferBranchKeyFromProtocol(protocol)
  IN  IF ~globalIrMap.ok THEN Null
      ELSE IF branchKey = "" THEN Null
      ELSE IF branchKey \notin DOMAIN globalIrMap.rates THEN Null
      ELSE Some(globalIrMap.rates[branchKey])

\* A JavaScript number that may be missing: <<>> is null, <<n>> the finite number n,
\* NaN a number that is not finite.
NaN == <<0, 0>>

IsFiniteNumber(v) == Len(v) = 1

\* Arithmetic on null reads it as 0.
ToNumber(v) == IF v = Null THEN Some(0) ELSE v

\* classifyRedemptionTier(interestPct, globalPct), rates in hundredths of a point.
\* Only globalPct == null gives UNKNOWN; with a NaN on either side every comparison
\* is false and the last branch is taken.
classifyRedemptionTier(interestPct, globalPct) ==
  IF globalPct = Null THEN "UNKNOWN"
  ELSE IF ~IsFiniteNumber(ToNumber(interestPct)) \/ ~IsFiniteNumber(globalPct) THEN "LOW"
  ELSE LET diff == ToNumber(interestPct)[1] - globalPct[1]
           absDiff == IF diff < 0 THEN -diff ELSE diff
       IN  IF diff <= env.REDEMP_BELOW_HIGH THEN "HIGH"
           ELSE IF diff <= env.REDEMP_BELOW_MED THEN "MEDIUM"
           ELSE IF absDiff <= env.REDEMP_NEUTRAL_ABS THEN "NEUTRAL"
           ELSE "LOW"

\* A fraction is num/den with den > 0; den = 0 stands for null or a non-finite number.
NoFrac == [num |-> 0, den |-> 0]

FracLeq_Strict(f, thousandths) == f.num * 1000 < thousandths * f.den

\* A fraction against a threshold given in thousandths.
FracLeq(f, thousandths) == f.num * 1000 <= thousandths * f.den

classifyLiquidationRisk_CritHighSwapped(bufferFrac) ==
  IF bufferFrac.den = 0 THEN "UNKNOWN"
  ELSE IF FracLeq(bufferFrac, env.LIQ_BUFFER_CRIT) THEN "HIGH"
  ELSE IF FracLeq(bufferFrac, env.LIQ_BUFFER_HIGH) THEN "CRITICAL"
  ELSE IF FracLeq(bufferFrac, env.LIQ_BUFFER_WARN) THEN "MEDIUM"
  ELSE "LOW"

\* classifyLiquidationRisk(bufferFrac)
classifyLiquidationRisk(bufferFrac) ==
  IF bufferFrac.den = 0 THEN "UNKNOWN"
  ELSE IF FracLeq(bufferFrac, env.LIQ_BUFFER_CRIT) THEN "CRITICAL"
  ELSE IF FracLeq(bufferFrac, env.LIQ_BUFFER_HIGH) THEN "HIGH"
  ELSE IF FracLeq(bufferFrac, env.LIQ_BUFFER_WARN) THEN "MEDIUM"
  ELSE "LOW"

\* classifyCdpRedemptionState(cdpPrice).state, the price in thousandths of a dollar
classifyCdpRedemptionState(cdpPrice) ==
  IF cdpPrice = Null THEN "UNKNOWN"
  ELSE IF cdpPrice[1] < env.CDP_REDEMPTION_TRIGGER THEN "ACTIVE"
  ELSE "DORMANT"

\* describeLoanPosition: bufferFrac = (priceNorm - liquidationPrice) / priceNorm with
\* liquidationPrice = debtNorm * mcrNorm / collNorm (0 when collNorm <= 0), as the
\* exact fraction of the raw chain integers (their common scale cancels).
BufferFrac(debt, coll, price, mcr) ==
  IF price <= 0 THEN NoFrac
  ELSE IF coll > 0 THEN [num |-> coll * price - debt * mcr, den |-> coll * price]
  ELSE [num |-> 1, den |-> 1]

\* describeLoanPosition(provider, chainId, protocol, row, { cdpState, globalIrMap }):
\* the engine's map after it, the processAlert calls it made, and the liquidation it
\* evaluated (none when a chain read threw or when no price was available).
describeLoanPosition(st, protocol, row, reads, cdpState, globalIrMap) ==
  LET globalIrPct == getGlobalInterestRatePctFromMap(protocol, globalIrMap)
      redTier == classifyRedemptionTier(Some(reads.interestPct), globalIrPct)
      rawPrice == getOraclePrice(reads.feed)
      bufferFrac == BufferFrac(reads.debt, reads.coll, rawPrice, reads.mcr)
      liqTier == classifyLiquidationRisk(bufferFrac)
      liqAlertActive == isTierAtLeast(liqTier, env.LIQ_ALERT_MIN_TIER, LIQ_TIER_ORDER)
      liq == handleLiquidationAlert(st,
               [protocol |-> protocol, wallet |-> row.owner, positionId |-> row.troveId,
                isActive |-> liqAlertActive, tier |-> liqTier])
      cdpIsActive == cdpState = "ACTIVE"
      redAlertActive ==
        cdpIsActive /\ isTierAtLeast(redTier, env.REDEMP_ALERT_MIN_TIER, REDEMP_TIER_ORDER)
      red == handleRedemptionAlert(liq.state,
               [protocol |-> protocol, wallet |-> row.owner, positionId |-> row.troveId,
                isActive |-> redAlertActive, tier |-> redTier])
  IN  IF ~reads.ok \/ rawPrice = 0
        THEN [state |-> st, calls |-> <<>>, trace |-> <<>>]
        ELSE [state |-> red.state,
              calls |-> <<liq.call, red.call>>,
              trace |-> <<[troveId |-> row.troveId, bufferFrac |-> bufferFrac,
                           tier |-> liqTier, prevActive |-> liq.call.prev.isActive,
                           dm |-> liq.call.dm]>>]

\* data/loan_contracts.json, one contract: its protocol, and the rows of its CSV
LoanProtocol == "ENOSYS_LOAN_FXRP"

LoanRows == <<[chain |-> "FLR", owner |-> "0xOWNER", contract |-> "0xTROVE_NFT", troveId |-> "1"]>>

RECURSIVE monitorLoanPositions_AbortsOnThrow(_, _, _, _, _, _)
monitorLoanPositions_AbortsOnThrow(positions, st, n, readsOf, cdpState, globalIrMap) ==
  IF n > Len(positions) \/ ~readsOf[n].ok
  THEN [state |-> st, calls |-> <<>>, trace |-> <<>>, rows |-> <<>>]
  ELSE LET one == describeLoanPosition(st, positions[n].protocol, positions[n], readsOf[n],
                                       cdpState, globalIrMap)
           rest == monitorLoanPositions_AbortsOnThrow(positions, one.state, n + 1, readsOf,
                                                      cdpState, globalIrMap)
       IN  [state |-> rest.state, calls |-> one.calls \o rest.calls,
            trace |-> one.trace \o rest.trace,
            rows |-> <<[troveId |-> positions[n].troveId, readOk |-> readsOf[n].ok,
                        debt |-> readsOf[n].debt,
                        rawPrice |-> getOraclePrice(readsOf[n].feed),
                        cdpState |-> cdpState, submitted |-> one.calls]>> \o rest.rows]

\* monitorLoans, the loops over the contracts and their CSV rows, flattened: positions
\* is the rows in the order the loops visit them, each with its contract's protocol;
\* each row's describeLoanPosition in turn, an exception of one row caught and logged.
RECURSIVE monitorLoanPositions(_, _, _, _, _, _)
monitorLoanPositions(positions, st, n, readsOf, cdpState, globalIrMap) ==
  IF n > Len(positions) THEN [state |-> st, calls |-> <<>>, trace |-> <<>>, rows |-> <<>>]
  ELSE LET one == describeLoanPosition(st, positions[n].protocol, positions[n], readsOf[n],
                                       cdpState, globalIrMap)
           rest == monitorLoanPositions(positions, one.state, n + 1, readsOf, cdpState,
                                        globalIrMap)
       IN  [state |-> rest.state, calls |-> one.calls \o rest.calls,
            trace |-> one.trace \o rest.trace,
            rows |-> <<[troveId |-> positions[n].troveId, readOk |-> readsOf[n].ok,
                        debt |-> readsOf[n].debt,
                        rawPrice |-> getOraclePrice(readsOf[n].feed),
                        cdpState |-> cdpState, submitted |-> one.calls]>> \o rest.rows]

\* The rows of the one loan contract of LoanRows, from row n on.
monitorLoanRows(st, n, readsOf, cdpState, globalIrMap) ==
  monitorLoanPositions([i \in 1..Len(LoanRows) |->
                          [protocol |-> LoanProtocol, owner |-> LoanRows[i].owner,
                           troveId |-> LoanRows[i].troveId]],
                       st, n, readsOf, cdpState, globalIrMap)

\* monitorLoans(): the CDP price and the global rates are fetched once, then the rows.
monitorLoans(st, cdpPrice, globalIrMap, readsOf) ==
  monitorLoanRows(st, 1, readsOf, classifyCdpRedemptionState(cdpPrice), globalIrMap)

-----------------------------------------------------------------------------
(* The handlers called directly, as commands/test-loan-liq.js and
   commands/test-loan-redemption.js do: the caller chooses isActive and tier. *)

TestLiqData ==
  [protocol : {"TEST_LIQ_PROTOCOL"}, wallet : {"0xTEST_WALLET"},
   positionId : {"TEST_LIQ_POSITION"}, isActive : BOOLEAN,
   tier : {"MEDIUM", "HIGH", "CRITICAL"}]

TestRedempData ==
  [protocol : {"TEST_REDEMP_PROTOCOL"}, wallet : {"0xTEST_WALLET"},
   positionId : {"TEST_REDEMP_POSITION"}, isActive : BOOLEAN,
   tier : {"MEDIUM", "HIGH"}]

TestLpData ==
  {[protocol |-> "TEST_LP_PROTOCOL", wallet |-> "0xTEST_WALLET", positionId |-> "TEST_LP_POSITION",
    isActive |-> a[1], currentStatus |-> a[2], lpRangeTier |-> a[3]] :
      a \in {<<TRUE, "OUT_OF_RANGE", "HIGH">>, <<TRUE, "OUT_OF_RANGE", "CRITICAL">>,
             <<FALSE, "IN_RANGE", "LOW">>}}

\* sendDm({ phase, ... }), which processAlert starts without awaiting it: no client or
\* no user drops the DM silently, a failed fetch or send is caught and logged.
sendDm(phase, client) ==
  IF phase = "NONE" THEN [called |-> FALSE, delivered |-> FALSE, logged |-> FALSE]
  ELSE IF client = "noClient" \/ client = "noUser"
    THEN [called |-> TRUE, delivered |-> FALSE, logged |-> FALSE]
  ELSE IF client = "fetchFails" \/ client = "sendFails"
    THEN [called |-> TRUE, delivered |-> FALSE, logged |-> TRUE]
  ELSE [called |-> TRUE, delivered |-> TRUE, logged |-> FALSE]

\* A processAlert call together with what became of the DM it started.
WithDm(call, client) ==
  [f \in DOMAIN call \cup {"sendDm"} |->
     IF f = "sendDm" THEN sendDm(call.dm, client) ELSE call[f]]

\* One handler call: the engine's map changes and the call is appended to the history.
HandlerCall(res) ==
  /\ Len(calls) < MaxCalls
  /\ alertState' = res.state
  /\ calls' = Append(calls, WithDm(res.call, discord))
  /\ UNCHANGED <<env, last, liqTrace, classified, evaluated, discord, startup, dmTasks, inbox>>
  /\ UNCHANGED schedVars
  /\ UNCHANGED scanVars

CallLiquidation == \E d \in TestLiqData : HandlerCall(handleLiquidationAlert(alertState, d))

CallRedemption == \E d \in TestRedempData : HandlerCall(handleRedemptionAlert(alertState, d))

CallLpRange == \E d \in TestLpData : HandlerCall(handleLpRangeAlert(alertState, d))

-----------------------------------------------------------------------------
(* Initial values *)

EmptyMap == [k \in {} |-> Null]

\* A chain with no Transfer log and no token
NoChain == [logs |-> <<>>, ownerOf |-> EmptyMap]

NoEnv == [set |-> FALSE]

\* The configuration was loaded and the bot is up.
Started == [pc |-> "running", raw |-> <<>>]

EngineInit ==
  /\ alertState = EmptyMap
  /\ calls = <<>>
  /\ last = <<>>
  /\ liqTrace = <<>>
  /\ classified = <<>>
  /\ evaluated = <<>>
  /\ discord = "up"
  /\ startup = Started
  /\ dmTasks = <<>>
  /\ inbox = <<>>

\* No pass has ended yet.
NoPass == [id |-> -1, monitorLoans |-> "none", monitorLPs |-> "none"]

SchedIdle ==
  /\ isMonitorRunning = FALSE
  /\ passes = EmptyMap
  /\ tickNo = 0
  /\ tickLog = <<>>
  /\ hbRunning = 0
  /\ lastPass = NoPass

\* Discovery has written no position yet and no run is on record.
StoreEmpty == addressesCsv = <<>> /\ positionsCsv = <<>> /\ storeLog = <<>>

ScanIdle ==
  /\ StoreEmpty
  /\ stateFile = EmptyMap
  /\ lpState = EmptyMap
  /\ scanPc = "idle"
  /\ todo = <<>>
  /\ runStart = EmptyMap
  /\ queries = <<>>
  /\ runNo = 0
  /\ onChain = NoChain
  /\ discArgs = <<>>
  /\ discovered = <<>>

-----------------------------------------------------------------------------
(* The alert engine under direct handler calls *)

InitEngine == env = NoEnv /\ EngineInit /\ SchedIdle /\ ScanIdle

NextEngine == CallLiquidation \/ CallRedemption \/ CallLpRange

SpecEngine == InitEngine /\ [][NextEngine]_vars

\* The calls made for one key, in order.
CallsOf(key) == SelectSeq(calls, LAMBDA c : c.key = key)

CalledKeys == {calls[i].key : i \in 1..Len(calls)}

\* Calls i..j of K are consecutive active calls that start from an Inactive (or absent) record.
ActiveRunFromInactive(K, i, j) ==
  /\ ~K[i].prev.isActive
  /\ \A k \in i..j : K[k].isActive

\* C1. Dedup: from an Inactive or absent record, consecutive active calls of one key that
\* all carry the same signature send exactly one notification: NEW on the first call,
\* none on the later ones.
C1_Dedup ==
  \A key \in CalledKeys :
    LET K == CallsOf(key) IN
    \A i \in 1..Len(K) : \A j \in i..Len(K) :
      (/\ ActiveRunFromInactive(K, i, j)
       /\ \A k \in i..j : K[k].signature = K[i].signature)
      => /\ K[i].dm = "NEW"
         /\ \A k \in (i+1)..j : K[k].dm = "NONE"

\* A run of three same-signature active calls from Inactive has been made for one key.
C1_Witness ==
  \E key \in CalledKeys :
    LET K == CallsOf(key) IN
    \E i \in 1..Len(K) :
      /\ i + 2 <= Len(K)
      /\ ActiveRunFromInactive(K, i, i + 2)
      /\ \A k \in i..(i+2) : K[k].signature = K[i].signature

C3_Resolution ==
  \A n \in 1..Len(calls) :
    (~calls[n].isActive /\ calls[n].prev.isActive)
    => /\ calls[n].dm = "NONE"
       /\ calls[n].stored
       /\ calls[n].after = [isActive |-> FALSE, signature |-> Null]

\* An Active record has been resolved.
C3_Witness ==
  \E n \in 1..Len(calls) : ~calls[n].isActive /\ calls[n].prev.isActive

-----------------------------------------------------------------------------
(* The loan monitor: passes of monitorLoans over the chain's answers *)

\* .env: the thresholds, and the minimum tiers that alert
Envs ==
  {[set |-> TRUE,
    LIQ_BUFFER_WARN |-> 200, LIQ_BUFFER_HIGH |-> 100, LIQ_BUFFER_CRIT |-> 50,
    REDEMP_BELOW_HIGH |-> -100, REDEMP_BELOW_MED |-> -50, REDEMP_NEUTRAL_ABS |-> 25,
    CDP_REDEMPTION_TRIGGER |-> 990,
    LIQ_ALERT_MIN_TIER |-> m, REDEMP_ALERT_MIN_TIER |-> "MEDIUM",
    LP_ALERT_MIN_TIER |-> "HIGH",
    LP_EDGE_WARN_FRAC |-> 100, LP_EDGE_HIGH_FRAC |-> 50,
    LP_OUT_WARN_FRAC |-> 50, LP_OUT_HIGH_FRAC |-> 200] : m \in {"MEDIUM", "HIGH"}}

PriceFeeds ==
  {[fetchPrice |-> [ok |-> TRUE, price |-> 1000, valid |-> TRUE],
    lastGoodPrice |-> [ok |-> TRUE, price |-> 1000],
    fetchRedemptionPrice |-> [ok |-> TRUE, price |-> 1000, valid |-> TRUE]],
   [fetchPrice |-> [ok |-> FALSE, price |-> 0, valid |-> FALSE],
    lastGoodPrice |-> [ok |-> TRUE, price |-> 0],
    fetchRedemptionPrice |-> [ok |-> TRUE, price |-> 1000, valid |-> FALSE]]}

\* What the chain answers for one trove: a read that throws, or the trove's data
\* (raw integers of one scale) and its price feed.
LoanReads ==
  [ok : {TRUE}, debt : {0, 600, 850, 970}, coll : {1100}, mcr : {1100},
   interestPct : {300, 600}, feed : PriceFeeds]
  \cup [ok : {FALSE}, debt : {0}, coll : {0}, mcr : {0}, interestPct : {0},
        feed : {CHOOSE f \in PriceFeeds : ~f.fetchPrice.ok}]

CdpPrices == {Null, Some(980), Some(1000)}

GlobalIrMaps == {[ok |-> FALSE, rates |-> EmptyMap], [ok |-> TRUE, rates |-> [b \in {"FXRP"} |-> 500]]}

MonitorLoans ==
  \E cdpPrice \in CdpPrices, globalIrMap \in GlobalIrMaps,
     readsOf \in [1..Len(LoanRows) -> LoanReads] :
    LET res == monitorLoans(alertState, cdpPrice, globalIrMap, readsOf) IN
    /\ Len(liqTrace) < MaxPasses
    /\ alertState' = res.state
    /\ last' = res.calls
    /\ liqTrace' = liqTrace \o res.trace
    /\ evaluated' = res.rows
    /\ UNCHANGED <<env, calls, classified, discord, startup, dmTasks, inbox>>
    /\ UNCHANGED schedVars
    /\ UNCHANGED scanVars

InitLoans == env \in Envs /\ EngineInit /\ SchedIdle /\ ScanIdle

NextLoans == MonitorLoans

SpecLoans == InitLoans /\ [][NextLoans]_vars

FracIs(f, thousandths) == f.den # 0 /\ f.num * 1000 = thousandths * f.den

\* Passes i..i+3 evaluated the liquidation buffers 0.40, 0.40, 0.15, 0.03 of one trove,
\* with thresholds warn 0.20, high 0.10, crit 0.05 and minimum tier MEDIUM.
C4_Case(i) ==
  /\ env.LIQ_BUFFER_WARN = 200 /\ env.LIQ_BUFFER_HIGH = 100 /\ env.LIQ_BUFFER_CRIT = 50
  /\ env.LIQ_ALERT_MIN_TIER = "MEDIUM"
  /\ i + 3 <= Len(liqTrace)
  /\ \A k \in i..(i+3) : liqTrace[k].troveId = liqTrace[i].troveId
  /\ FracIs(liqTrace[i].bufferFrac, 400) /\ FracIs(liqTrace[i+1].bufferFrac, 400)
  /\ FracIs(liqTrace[i+2].bufferFrac, 150) /\ FracIs(liqTrace[i+3].bufferFrac, 30)

\* C4. The buffer sequence [0.40, 0.40, 0.15, 0.03] over four passes gives the tiers
\* [LOW, LOW, MEDIUM, CRITICAL] and the notifications [none, none, NEW, UPDATED].
C4_EndToEnd ==
  \A i \in 1..Len(liqTrace) :
    C4_Case(i) =>
      /\ <<liqTrace[i].tier, liqTrace[i+1].tier, liqTrace[i+2].tier, liqTrace[i+3].tier>>
           = <<"LOW", "LOW", "MEDIUM", "CRITICAL">>
      /\ <<liqTrace[i].dm, liqTrace[i+1].dm, liqTrace[i+2].dm, liqTrace[i+3].dm>>
           = <<"NONE", "NONE", "NEW", "UPDATED">>

\* The four passes of the example have been run, from a trove with no alert.
C4_Witness == C4_Case(1)

TierIndex(c) ==
  IndexOf(IF c.alertType = "REDEMPTION" THEN REDEMP_TIER_ORDER ELSE LIQ_TIER_ORDER, c.tier)

\* The tier an Active record was last notified with: its signature is that of { tier }.
PrevTierIndex(c) ==
  IndexOf(IF c.alertType = "REDEMPTION" THEN REDEMP_TIER_ORDER ELSE LIQ_TIER_ORDER,
          c.prev.signature[2][2])

\* C5. A notification is sent only when an alert becomes active or moves to a more
\* severe tier: a drop to a less severe tier that still alerts sends nothing. (Stated
\* for the tiers LOW to CRITICAL, whose severity order is not in question.)
C5_OnlyActivationOrEscalation ==
  \A n \in 1..Len(last) :
    last[n].dm # "NONE" =>
      \/ ~last[n].prev.isActive
      \/ last[n].tier = "UNKNOWN"
      \/ last[n].prev.signature[2][2] = "UNKNOWN"
      \/ TierIndex(last[n]) > PrevTierIndex(last[n])

\* C6. UNKNOWN never alerts: with a minimum tier other than UNKNOWN, an evaluation with
\* tier UNKNOWN is never submitted as active and never notified.
C6_UnknownNeverAlerts ==
  \A n \in 1..Len(last) :
    (/\ last[n].tier = "UNKNOWN"
     /\ env.LIQ_ALERT_MIN_TIER # "UNKNOWN" /\ env.REDEMP_ALERT_MIN_TIER # "UNKNOWN")
    => ~last[n].isActive /\ last[n].dm = "NONE"

-----------------------------------------------------------------------------
(* lpMonitor.js *)

LP_TIER_ORDER == <<"LOW", "MEDIUM", "HIGH", "CRITICAL", "UNKNOWN">>

isLpTierAtLeast(tier, minTier) == isTierAtLeast(tier, minTier, LP_TIER_ORDER)

classifyLpRangeTier_FallbackUnknown(normStatus, tickLower, tickUpper, currentTick) ==
  LET width == tickUpper - tickLower
      hasTicks == width > 0 /\ currentTick # Null
      tick == currentTick[1]
      centerDist == IF tick - tickLower <= tickUpper - tick
                    THEN tick - tickLower ELSE tickUpper - tick
      distance == IF tick < tickLower THEN tickLower - tick ELSE tick - tickUpper
  IN IF normStatus = "IN_RANGE" /\ hasTicks
     THEN IF centerDist < 0 THEN "UNKNOWN"
          ELSE IF centerDist * 1000 <= env.LP_EDGE_HIGH_FRAC * width THEN "HIGH"
          ELSE IF centerDist * 1000 <= env.LP_EDGE_WARN_FRAC * width THEN "MEDIUM"
          ELSE "LOW"
     ELSE IF normStatus = "OUT_OF_RANGE" /\ hasTicks
     THEN IF tick >= tickLower /\ tick < tickUpper THEN "HIGH"
          ELSE IF distance * 1000 <= env.LP_OUT_WARN_FRAC * width THEN "MEDIUM"
          ELSE IF distance * 1000 <= env.LP_OUT_HIGH_FRAC * width THEN "HIGH"
          ELSE "CRITICAL"
     ELSE "UNKNOWN"

classifyLpRangeTier_OutStrict(normStatus, tickLower, tickUpper, currentTick) ==
  LET width == tickUpper - tickLower
      hasTicks == width > 0 /\ currentTick # Null
      tick == currentTick[1]
      centerDist == IF tick - tickLower <= tickUpper - tick
                    THEN tick - tickLower ELSE tickUpper - tick
      distance == IF tick < tickLower THEN tickLower - tick ELSE tick - tickUpper
  IN IF normStatus = "IN_RANGE" /\ hasTicks
     THEN IF centerDist < 0 THEN "UNKNOWN"
          ELSE IF centerDist * 1000 <= env.LP_EDGE_HIGH_FRAC * width THEN "HIGH"
          ELSE IF centerDist * 1000 <= env.LP_EDGE_WARN_FRAC * width THEN "MEDIUM"
          ELSE "LOW"
     ELSE IF normStatus = "OUT_OF_RANGE" /\ hasTicks
     THEN IF tick >= tickLower /\ tick < tickUpper THEN "HIGH"
          ELSE IF distance * 1000 < env.LP_OUT_WARN_FRAC * width THEN "MEDIUM"
          ELSE IF distance * 1000 < env.LP_OUT_HIGH_FRAC * width THEN "HIGH"
          ELSE "CRITICAL"
     ELSE IF normStatus = "IN_RANGE" THEN "LOW" ELSE "UNKNOWN"

\* The tier of a range status and its ticks; currentTick is Null or Some(tick).
\* Fractions of the tick width are compared by cross-multiplication.
classifyLpRangeTier(normStatus, tickLower, tickUpper, currentTick) ==
  LET width == tickUpper - tickLower
      hasTicks == width > 0 /\ currentTick # Null
      tick == currentTick[1]
      centerDist == IF tick - tickLower <= tickUpper - tick
                    THEN tick - tickLower ELSE tickUpper - tick
      distance == IF tick < tickLower THEN tickLower - tick ELSE tick - tickUpper
  IN IF normStatus = "IN_RANGE" /\ hasTicks
     THEN IF centerDist < 0 THEN "UNKNOWN"
          ELSE IF centerDist * 1000 <= env.LP_EDGE_HIGH_FRAC * width THEN "HIGH"
          ELSE IF centerDist * 1000 <= env.LP_EDGE_WARN_FRAC * width THEN "MEDIUM"
          ELSE "LOW"
     ELSE IF normStatus = "OUT_OF_RANGE" /\ hasTicks
     THEN IF tick >= tickLower /\ tick < tickUpper THEN "HIGH"
          ELSE IF distance * 1000 <= env.LP_OUT_WARN_FRAC * width THEN "MEDIUM"
          ELSE IF distance * 1000 <= env.LP_OUT_HIGH_FRAC * width THEN "HIGH"
          ELSE "CRITICAL"
     ELSE IF normStatus = "IN_RANGE" THEN "LOW" ELSE "UNKNOWN"

describeLpPosition_TierOnlyGate(st, protocol, row, reads) ==
  IF ~reads.ok \/ reads.liquidity = 0
  THEN [state |-> st, calls |-> <<>>]
  ELSE
    LET currentTick == IF reads.pool.ok THEN Some(reads.pool.tick) ELSE Null
        normCurrentStatus ==
          IF ~reads.pool.ok THEN "UNKNOWN"
          ELSE IF reads.pool.tick >= reads.tickLower /\ reads.pool.tick < reads.tickUpper
               THEN "IN_RANGE" ELSE "OUT_OF_RANGE"
        lpRangeTier ==
          classifyLpRangeTier(normCurrentStatus, reads.tickLower, reads.tickUpper, currentTick)
        isActive == isLpTierAtLeast(lpRangeTier, env.LP_ALERT_MIN_TIER)
        res == handleLpRangeAlert(st, [protocol |-> protocol, wallet |-> row.owner,
                                       positionId |-> row.tokenId, isActive |-> isActive,
                                       currentStatus |-> normCurrentStatus,
                                       lpRangeTier |-> lpRangeTier])
    IN [state |-> res.state, calls |-> <<res.call>>]

\* One LP position: positions() may throw (the caller logs it), zero liquidity is
\* ignored, the pool's tick may be unavailable; then the range alert is submitted.
describeLpPosition(st, protocol, row, reads) ==
  IF ~reads.ok \/ reads.liquidity = 0
  THEN [state |-> st, calls |-> <<>>]
  ELSE
    LET currentTick == IF reads.pool.ok THEN Some(reads.pool.tick) ELSE Null
        normCurrentStatus ==
          IF ~reads.pool.ok THEN "UNKNOWN"
          ELSE IF reads.pool.tick >= reads.tickLower /\ reads.pool.tick < reads.tickUpper
               THEN "IN_RANGE" ELSE "OUT_OF_RANGE"
        lpRangeTier ==
          classifyLpRangeTier(normCurrentStatus, reads.tickLower, reads.tickUpper, currentTick)
        isActive == normCurrentStatus = "OUT_OF_RANGE"
                    /\ isLpTierAtLeast(lpRangeTier, env.LP_ALERT_MIN_TIER)
        res == handleLpRangeAlert(st, [protocol |-> protocol, wallet |-> row.owner,
                                       positionId |-> row.tokenId, isActive |-> isActive,
                                       currentStatus |-> normCurrentStatus,
                                       lpRangeTier |-> lpRangeTier])
    IN [state |-> res.state, calls |-> <<res.call>>]

LpProtocol == "ENOSYS_LP"

\* data/<csvFile> of the LP contract: the positions to monitor
LpRows == <<[chain |-> "FLR", owner |-> "0xOWNER", tokenId |-> "7"]>>

\* monitorLPs, the loops over the contracts and their CSV rows, flattened as for loans.
RECURSIVE monitorLpPositions(_, _, _, _)
monitorLpPositions(positions, st, i, readsOf) ==
  IF i > Len(positions) THEN [state |-> st, calls |-> <<>>, rows |-> <<>>]
  ELSE LET one == describeLpPosition(st, positions[i].protocol, positions[i], readsOf[i])
           rest == monitorLpPositions(positions, one.state, i + 1, readsOf)
       IN [state |-> rest.state, calls |-> one.calls \o rest.calls,
           rows |-> <<[tokenId |-> positions[i].tokenId, readOk |-> readsOf[i].ok,
                       liquidity |-> readsOf[i].liquidity, reads |-> readsOf[i],
                       submitted |-> one.calls]>> \o rest.rows]

\* The rows of the one LP contract of LpRows, from row i on.
monitorLpRows(st, i, readsOf) ==
  monitorLpPositions([n \in 1..Len(LpRows) |->
                        [protocol |-> LpProtocol, owner |-> LpRows[n].owner,
                         tokenId |-> LpRows[n].tokenId]],
                     st, i, readsOf)

monitorLPs(st, readsOf) == monitorLpRows(st, 1, readsOf)

\* What the chain answers for one LP position
LpReads ==
  [ok : {TRUE}, liquidity : {1}, tickLower : {0}, tickUpper : {100},
   pool : [ok : {TRUE}, tick : {50, 102, 150}]]
  \cup {[ok |-> TRUE, liquidity |-> 1, tickLower |-> 0, tickUpper |-> 100,
         pool |-> [ok |-> FALSE, tick |-> 0]],
        [ok |-> TRUE, liquidity |-> 0, tickLower |-> 0, tickUpper |-> 100,
         pool |-> [ok |-> TRUE, tick |-> 150]],
        [ok |-> FALSE, liquidity |-> 0, tickLower |-> 0, tickUpper |-> 0,
         pool |-> [ok |-> FALSE, tick |-> 0]]}

-----------------------------------------------------------------------------
(* events/onReady.js: the startup pass, the monitor schedule and the heartbeat *)

PreviousCycleStillRunning_Never(running) == FALSE

\* cron callback: if (isMonitorRunning) { ...skipping this tick; return; }
PreviousCycleStillRunning(running) == running

Without(f, id) == [k \in DOMAIN f \ {id} |-> f[k]]

\* The synchronous head of a pass: the guard, the flag, the call of monitorLoans.
BeginPass(id) ==
  IF PreviousCycleStillRunning(isMonitorRunning)
  THEN /\ tickLog' = Append(tickLog, [did |-> "skipped", before |-> DOMAIN passes,
                                      after |-> DOMAIN passes])
       /\ UNCHANGED <<isMonitorRunning, passes>>
  ELSE /\ isMonitorRunning' = TRUE
       /\ passes' = [k \in DOMAIN passes \cup {id} |->
                       IF k = id THEN "monitorLoans" ELSE passes[k]]
       /\ tickLog' = Append(tickLog, [did |-> "started", before |-> DOMAIN passes,
                                      after |-> DOMAIN passes \cup {id}])

\* (async () => { ... })() in onReady
StartupPass ==
  /\ tickNo = 0
  /\ BeginPass(0)
  /\ tickNo' = 1
  /\ UNCHANGED <<env, alertState, calls, last, liqTrace, classified, evaluated, discord, startup,
                 dmTasks, inbox,
                 hbRunning, lastPass>>
  /\ UNCHANGED scanVars

\* cron.schedule(CRON_SCHED, async () => { ... })
CronTick ==
  /\ tickNo >= 1
  /\ tickNo <= MaxTicks
  /\ BeginPass(tickNo)
  /\ tickNo' = tickNo + 1
  /\ UNCHANGED <<env, alertState, calls, last, liqTrace, classified, evaluated, discord, startup,
                 dmTasks, inbox,
                 hbRunning, lastPass>>
  /\ UNCHANGED scanVars

IsMonitorRunningAfterPass_StuckOnFailure(failed) == failed

\* isMonitorRunning = false, the statement after the try/catch of a pass
IsMonitorRunningAfterPass(failed) == FALSE

\* await monitorLoans() settles: resolved, the pass goes on to monitorLPs();
\* rejected (readCsvRows threw on the position file), the catch logs it and the
\* pass ends without a call of monitorLPs.
MonitorLoansSettles ==
  \E id \in DOMAIN passes :
    /\ passes[id] = "monitorLoans"
    /\ \/ \E cdpPrice \in CdpPrices, globalIrMap \in GlobalIrMaps,
             readsOf \in [1..Len(LoanRows) -> LoanReads] :
            /\ alertState' = monitorLoans(alertState, cdpPrice, globalIrMap, readsOf).state
            /\ passes' = [passes EXCEPT ![id] = "monitorLPs"]
            /\ UNCHANGED <<isMonitorRunning, lastPass>>
       \/ /\ passes' = Without(passes, id)
          /\ isMonitorRunning' = IsMonitorRunningAfterPass(TRUE)
          /\ lastPass' = [id |-> id, monitorLoans |-> "rejected", monitorLPs |-> "not called"]
          /\ UNCHANGED alertState
    /\ UNCHANGED <<env, calls, last, liqTrace, classified, evaluated, discord, startup,
                   dmTasks, inbox, tickNo, tickLog,
                   hbRunning>>
    /\ UNCHANGED scanVars

\* await monitorLPs() settles either way; the pass ends and releases the flag.
MonitorLPsSettles ==
  \E id \in DOMAIN passes :
    /\ passes[id] = "monitorLPs"
    /\ \/ \E readsOf \in [1..Len(LpRows) -> LpReads] :
            /\ alertState' = monitorLPs(alertState, readsOf).state
            /\ isMonitorRunning' = IsMonitorRunningAfterPass(FALSE)
            /\ lastPass' = [id |-> id, monitorLoans |-> "resolved", monitorLPs |-> "resolved"]
       \/ /\ UNCHANGED alertState
          /\ isMonitorRunning' = IsMonitorRunningAfterPass(TRUE)
          /\ lastPass' = [id |-> id, monitorLoans |-> "resolved", monitorLPs |-> "rejected"]
    /\ passes' = Without(passes, id)
    /\ UNCHANGED <<env, calls, last, liqTrace, classified, evaluated, discord, startup,
                   dmTasks, inbox, tickNo, tickLog,
                   hbRunning>>
    /\ UNCHANGED scanVars

\* cron.schedule(HEARTBEAT_CRON, async () => { ... }): no guard
HeartbeatTick ==
  /\ tickNo >= 1
  /\ hbRunning < MaxHeartbeats
  /\ hbRunning' = hbRunning + 1
  /\ UNCHANGED <<env, alertState, calls, last, liqTrace, classified, evaluated, discord, startup,
                 dmTasks, inbox,
                 isMonitorRunning, passes,
                 tickNo, tickLog, lastPass>>
  /\ UNCHANGED scanVars

HeartbeatEnd ==
  /\ hbRunning > 0
  /\ hbRunning' = hbRunning - 1
  /\ UNCHANGED <<env, alertState, calls, last, liqTrace, classified, evaluated, discord, startup,
                 dmTasks, inbox,
                 isMonitorRunning, passes,
                 tickNo, tickLog, lastPass>>
  /\ UNCHANGED scanVars

InitSched == env \in Envs /\ EngineInit /\ SchedIdle /\ ScanIdle

NextSched ==
  \/ StartupPass
  \/ CronTick
  \/ MonitorLoansSettles
  \/ MonitorLPsSettles
  \/ HeartbeatTick
  \/ HeartbeatEnd

SpecSched == InitSched /\ [][NextSched]_vars

\* C7: at no time are two monitoring passes (startup or scheduled) in progress,
\* and a tick that arrives while a pass is running is skipped: it starts no pass
\* and leaves the passes in flight as they were.
C7_NonOverlappingPasses ==
  /\ Cardinality(DOMAIN passes) <= 1
  /\ isMonitorRunning <=> DOMAIN passes # {}
  /\ \A i \in 1..Len(tickLog) :
       tickLog[i].before # {} => tickLog[i].did = "skipped" /\ tickLog[i].after = tickLog[i].before

\* A tick arrived while a pass was running and was skipped, and the pass is still running.
C7_Witness ==
  /\ \E i \in 1..Len(tickLog) : tickLog[i].did = "skipped" /\ tickLog[i].before # {}
  /\ Cardinality(DOMAIN passes) = 1

-----------------------------------------------------------------------------
(* dev/discover_lp_positions.js (dev/discover_loan_positions.js has the same shape) *)

MAX_LOG_RANGE_BLOCKS == 1000

LP_CONTRACTS_FLR ==
  <<[key |-> "enosys", protocol |-> "ENOSYS_LP", envStartKey |-> "ENOSYS_LP_START_BLOCK"],
    [key |-> "sparkdex", protocol |-> "SPARKDEX_LP", envStartKey |-> "SPARKDEX_LP_START_BLOCK"]>>

\* data/addresses.csv: the FLR addresses
flrAddresses == <<"0xOWNER", "0xOTHER">>

\* lpState[chain][protocol].lastScannedBlock, as a map <<chain, protocol>> -> block
HasCheckpoint(state, chain, protocol) == <<chain, protocol>> \in DOMAIN state

getStartBlock(state, chain, protocol, envStartKey) ==
  IF HasCheckpoint(state, chain, protocol) THEN state[<<chain, protocol>>]
  ELSE IF env[envStartKey] # Null /\ env[envStartKey][1] # 0 THEN env[envStartKey][1]
  ELSE 0

setLastScannedBlock(state, chain, protocol, blockNumber) ==
  [k \in DOMAIN state \cup {<<chain, protocol>>} |->
     IF k = <<chain, protocol>> THEN blockNumber ELSE state[k]]

Min(a, b) == IF a <= b THEN a ELSE b

NextFromBlock_NoSkip(fromBlock) == fromBlock + MAX_LOG_RANGE_BLOCKS

\* fromBlock += MAX_LOG_RANGE_BLOCKS + 1
NextFromBlock(fromBlock) == fromBlock + MAX_LOG_RANGE_BLOCKS + 1

WindowToBlock_Unclamped(fromBlock, latestBlock) == fromBlock + MAX_LOG_RANGE_BLOCKS

\* const toBlock = Math.min(fromBlock + MAX_LOG_RANGE_BLOCKS, latestBlock)
WindowToBlock(fromBlock, latestBlock) == Min(fromBlock + MAX_LOG_RANGE_BLOCKS, latestBlock)

\* for (fromBlock = startBlock; fromBlock <= latestBlock; fromBlock += MAX_LOG_RANGE_BLOCKS + 1)
RECURSIVE LogWindows(_, _)
LogWindows(fromBlock, latestBlock) ==
  IF fromBlock > latestBlock THEN <<>>
  ELSE <<[fromBlock |-> fromBlock, toBlock |-> WindowToBlock(fromBlock, latestBlock)]>>
       \o LogWindows(NextFromBlock(fromBlock), latestBlock)

\* The windows of one owner: none when startBlock > latestBlock
OwnerWindows(startBlock, latestBlock) ==
  LET start == IF startBlock < 0 THEN 0 ELSE startBlock
  IN IF start > latestBlock THEN <<>> ELSE LogWindows(start, latestBlock)

\* The getLogs calls of one owner; getLogsOk[i] tells whether the i-th call returned.
getLogsCalls(protocol, owner, startBlock, latestBlock, getLogsOk) ==
  LET windows == OwnerWindows(startBlock, latestBlock)
  IN [i \in 1..Len(windows) |->
        [protocol |-> protocol, owner |-> owner, fromBlock |-> windows[i].fromBlock,
         toBlock |-> windows[i].toBlock, ok |-> getLogsOk[i]]]

\* ethers.getAddress: the checksummed form of an address, whatever its case
getAddress(addr) ==
  CASE addr = "0xowner" -> "0xOWNER"
    [] addr = "0xother" -> "0xOTHER"
    [] OTHER -> addr

\* provider.getLogs({ address, fromBlock, toBlock, topics: [TRANSFER_TOPIC, null, ownerTopic] }):
\* the contract's Transfer logs of the block range whose recipient is the owner
getLogs(chainState, owner, fromBlock, toBlock) ==
  SelectSeq(chainState.logs,
            LAMBDA log : /\ log.blockNumber >= fromBlock /\ log.blockNumber <= toBlock
                         /\ getAddress(log.to) = getAddress(owner))

\* candidateTokenIds.add(tokenId) for the logs of one window, in their order;
\* a log with fewer than four topics carries no token id and is skipped
RECURSIVE AddTokenIds(_, _)
AddTokenIds(candidates, logsIn) ==
  IF logsIn = <<>> THEN candidates
  ELSE LET log == Head(logsIn)
           seen == {candidates[i] : i \in 1..Len(candidates)}
       IN AddTokenIds(IF log.topics < 4 \/ log.tokenId \in seen
                      THEN candidates ELSE Append(candidates, log.tokenId),
                      Tail(logsIn))

\* The window loop: the logs of a window whose getLogs threw are not seen
RECURSIVE ScanWindows(_, _, _, _, _)
ScanWindows(chainState, owner, logCalls, i, candidates) ==
  IF i > Len(logCalls) THEN candidates
  ELSE ScanWindows(chainState, owner, logCalls, i + 1,
                   IF logCalls[i].ok
                   THEN AddTokenIds(candidates,
                                    getLogs(chainState, owner, logCalls[i].fromBlock, logCalls[i].toBlock))
                   ELSE candidates)

\* "Confirm current ownership": ownerOf may throw (ownerOfOk false, or a burned token)
OwnedNow_Unconfirmed(chainState, owner, candidates, ownerOfOk) == candidates

OwnedNow_SkipsKnown(chainState, owner, candidates, ownerOfOk) ==
  SelectSeq(candidates,
            LAMBDA tokenId :
              /\ ownerOfOk[tokenId]
              /\ tokenId \in DOMAIN chainState.ownerOf
              /\ getAddress(chainState.ownerOf[tokenId]) = getAddress(owner)
              /\ \A n \in 1..Len(discovered) :
                   \A k \in 1..Len(discovered[n].ownedNow) : discovered[n].ownedNow[k] # tokenId)

OwnedNow(chainState, owner, candidates, ownerOfOk) ==
  SelectSeq(candidates,
            LAMBDA tokenId : /\ ownerOfOk[tokenId]
                             /\ tokenId \in DOMAIN chainState.ownerOf
                             /\ getAddress(chainState.ownerOf[tokenId]) = getAddress(owner))

\* discoverTokenIdsForOwner({ provider, nftAddress, owner, startBlock, latestBlock }):
\* the getLogs calls it makes, the candidates it collects and the ids it returns
discoverTokenIdsForOwner(chainState, protocol, owner, startBlock, latestBlock, getLogsOk, ownerOfOk) ==
  LET logCalls == getLogsCalls(protocol, owner, startBlock, latestBlock, getLogsOk)
      candidateTokenIds == ScanWindows(chainState, owner, logCalls, 1, <<>>)
  IN [queries |-> logCalls,
      candidateTokenIds |-> candidateTokenIds,
      ownedNow |-> OwnedNow(chainState, owner, candidateTokenIds, ownerOfOk)]

RECURSIVE OwnerQueries(_, _, _, _, _)
OwnerQueries(protocol, i, startBlock, latestBlock, getLogsOk) ==
  IF i > Len(flrAddresses) THEN <<>>
  ELSE getLogsCalls(protocol, flrAddresses[i], startBlock, latestBlock, getLogsOk[i])
       \o OwnerQueries(protocol, i + 1, startBlock, latestBlock, getLogsOk)

\* One contract: the start block from the state, every owner's windows, then the
\* checkpoint is set to the latest block.
discoverForLpContract(lpConfig, state, latestBlock, getLogsOk) ==
  LET startBlock == getStartBlock(state, "FLR", lpConfig.protocol, lpConfig.envStartKey)
  IN [queries |-> OwnerQueries(lpConfig.protocol, 1, startBlock, latestBlock, getLogsOk),
      lpState |-> setLastScannedBlock(state, "FLR", lpConfig.protocol, latestBlock)]

\* What provider.getBlockNumber() answers
LatestBlocks == {500, 1000, 2500}

MaxWindows == 3

\* Which getLogs calls return, per owner and window
GetLogsOutcomes == [1..Len(flrAddresses) -> [1..MaxWindows -> BOOLEAN]]

\* process.argv: the keys that select contracts; none selects all
CliArgs == {{}, {"enosys"}, {"sparkdex"}, {"other"}}

enabledConfigs(args) ==
  IF args = {} THEN LP_CONTRACTS_FLR
  ELSE SelectSeq(LP_CONTRACTS_FLR, LAMBDA cfg : cfg.key \in args)

\* main() up to the loop: the contracts are selected and the state file is loaded
StartDiscovery ==
  \E args \in CliArgs :
    /\ scanPc = "idle"
    /\ runNo < MaxRuns
    /\ enabledConfigs(args) # <<>>
    /\ scanPc' = "scanning"
    /\ todo' = enabledConfigs(args)
    /\ lpState' = stateFile
    /\ runStart' = stateFile
    /\ queries' = <<>>
    /\ runNo' = runNo + 1
    /\ UNCHANGED <<env, stateFile>>
    /\ UNCHANGED <<onChain, discArgs, discovered, addressesCsv, positionsCsv, storeLog>>
    /\ UNCHANGED engineVars
    /\ UNCHANGED schedVars

\* one iteration of main()'s loop
DiscoverForLpContract ==
  \E latestBlock \in LatestBlocks, getLogsOk \in GetLogsOutcomes :
    LET res == discoverForLpContract(Head(todo), lpState, latestBlock, getLogsOk) IN
    /\ scanPc = "scanning"
    /\ todo # <<>>
    /\ queries' = res.queries
    /\ lpState' = res.lpState
    /\ todo' = Tail(todo)
    /\ UNCHANGED <<env, stateFile, scanPc, runStart, runNo>>
    /\ UNCHANGED <<onChain, discArgs, discovered, addressesCsv, positionsCsv, storeLog>>
    /\ UNCHANGED engineVars
    /\ UNCHANGED schedVars

\* provider.getBlockNumber() rejects: main().catch logs it and the process exits
DiscoveryFails ==
  /\ scanPc = "scanning"
  /\ todo # <<>>
  /\ scanPc' = "idle"
  /\ todo' = <<>>
  /\ lpState' = EmptyMap
  /\ UNCHANGED <<env, stateFile, runStart, queries, runNo>>
  /\ UNCHANGED <<onChain, discArgs, discovered, addressesCsv, positionsCsv, storeLog>>
  /\ UNCHANGED engineVars
  /\ UNCHANGED schedVars

\* saveLpState(lpState), the end of main()
SaveLpState ==
  /\ scanPc = "scanning"
  /\ todo = <<>>
  /\ stateFile' = lpState
  /\ scanPc' = "idle"
  /\ lpState' = EmptyMap
  /\ UNCHANGED <<env, todo, runStart, queries, runNo>>
  /\ UNCHANGED <<onChain, discArgs, discovered, addressesCsv, positionsCsv, storeLog>>
  /\ UNCHANGED engineVars
  /\ UNCHANGED schedVars

\* .env of the discovery script: the optional bootstrap start blocks
ScanEnvs ==
  {[set |-> TRUE, ENOSYS_LP_START_BLOCK |-> s, SPARKDEX_LP_START_BLOCK |-> Null] :
     s \in {Null, Some(400)}}

InitScan == env \in ScanEnvs /\ EngineInit /\ SchedIdle /\ ScanIdle

NextScan == StartDiscovery \/ DiscoverForLpContract \/ DiscoveryFails \/ SaveLpState

SpecScan == InitScan /\ [][NextScan]_vars

\* C8: the stored lastScannedBlock of a (chain, protocol) never decreases from
\* one discovery run to the next, whatever latest block the provider reports.
C8_CheckpointMonotone ==
  \A k \in DOMAIN runStart : k \in DOMAIN stateFile /\ stateFile[k] >= runStart[k]

\* C9: once a checkpoint L is stored for a (chain, protocol), no later run
\* issues a log query whose block range contains a block <= L.
C9_NoRescan ==
  \A i \in 1..Len(queries) :
    HasCheckpoint(runStart, "FLR", queries[i].protocol)
      => queries[i].fromBlock > runStart[<<"FLR", queries[i].protocol>>]

\* C10: when the log query of a window failed, the checkpoint of that
\* (chain, protocol) is not advanced beyond the start of that window.
C10_AdvanceOnlyOverSuccess ==
  \A i \in 1..Len(queries) :
    (~queries[i].ok /\ HasCheckpoint(lpState, "FLR", queries[i].protocol))
      => lpState[<<"FLR", queries[i].protocol>>] <= queries[i].fromBlock

-----------------------------------------------------------------------------
(* discoverTokenIdsForOwner as a function of the chain and of what the provider
   answers: the arguments are fixed at the start, the chain may move between calls *)

TokenIds == {"7", "8"}

\* The NFT contract's Transfer logs (block order) and the current owners. Token 7
\* went to the owner twice, token 8 went to the owner and then on to the other
\* address; the log of block 1700 has three topics only.
ChainBefore ==
  [logs |-> <<[blockNumber |-> 10, to |-> "0xowner", tokenId |-> "7", topics |-> 4],
              [blockNumber |-> 1500, to |-> "0xowner", tokenId |-> "8", topics |-> 4],
              [blockNumber |-> 1700, to |-> "0xowner", tokenId |-> "8", topics |-> 3],
              [blockNumber |-> 2400, to |-> "0xowner", tokenId |-> "7", topics |-> 4],
              [blockNumber |-> 2450, to |-> "0xother", tokenId |-> "8", topics |-> 4]>>,
   ownerOf |-> [t \in TokenIds |-> IF t = "7" THEN "0xOWNER" ELSE "0xOTHER"]]

\* Token 8 comes back to the owner in block 2500.
ChainAfter ==
  [logs |-> Append(ChainBefore.logs,
                   [blockNumber |-> 2500, to |-> "0xowner", tokenId |-> "8", topics |-> 4]),
   ownerOf |-> [t \in TokenIds |-> "0xOWNER"]]

\* The (startBlock, latestBlock) pairs discovery is called with
DiscRanges == {<<0, 1000>>, <<0, 2500>>, <<1001, 2500>>, <<1001, 1000>>, <<0, 3002>>,
               <<2500, 2500>>}

DiscArgs ==
  {[owner |-> o, startBlock |-> r[1], latestBlock |-> r[2]] :
     o \in {"0xowner", "0xOTHER"}, r \in DiscRanges}

\* One call of discoverTokenIdsForOwner with the fixed arguments against the chain
\* as it is now; the provider chooses which getLogs and ownerOf calls return.
DiscoverTokenIds ==
  LET windows == OwnerWindows(discArgs.startBlock, discArgs.latestBlock) IN
  \E getLogsOk \in [1..Len(windows) -> BOOLEAN], ownerOfOk \in [TokenIds -> BOOLEAN] :
    LET res == discoverTokenIdsForOwner(onChain, "ENOSYS_LP", discArgs.owner,
                                        discArgs.startBlock, discArgs.latestBlock,
                                        getLogsOk, ownerOfOk)
    IN
    /\ Len(discovered) < MaxDiscoveries
    /\ \A t \in TokenIds :
         (\A i \in 1..Len(res.candidateTokenIds) : res.candidateTokenIds[i] # t) => ownerOfOk[t]
    /\ discovered' = Append(discovered,
                            [onChain |-> onChain, getLogsOk |-> getLogsOk,
                             ownerOfOk |-> ownerOfOk, queries |-> res.queries,
                             ownedNow |-> res.ownedNow])
    /\ UNCHANGED <<env, stateFile, lpState, scanPc, todo, runStart, queries, runNo, onChain,
                   discArgs>>
    /\ UNCHANGED storeVars
    /\ UNCHANGED engineVars
    /\ UNCHANGED schedVars

\* A block is mined between two calls: token 8 is transferred back to the owner.
ChainMoves ==
  /\ onChain = ChainBefore
  /\ onChain' = ChainAfter
  /\ UNCHANGED <<env, stateFile, lpState, scanPc, todo, runStart, queries, runNo, discArgs,
                 discovered>>
  /\ UNCHANGED storeVars
  /\ UNCHANGED engineVars
  /\ UNCHANGED schedVars

InitDiscover ==
  /\ env = NoEnv
  /\ EngineInit
  /\ SchedIdle
  /\ stateFile = EmptyMap /\ lpState = EmptyMap /\ scanPc = "idle" /\ todo = <<>>
  /\ runStart = EmptyMap /\ queries = <<>> /\ runNo = 0
  /\ onChain \in {ChainBefore, ChainAfter}
  /\ discArgs \in DiscArgs
  /\ discovered = <<>>
  /\ StoreEmpty

NextDiscover == DiscoverTokenIds \/ ChainMoves

SpecDiscover == InitDiscover /\ [][NextDiscover]_vars

IdSet(ids) == {ids[i] : i \in 1..Len(ids)}

SameChain(i, j) == discovered[i].onChain = discovered[j].onChain

SameAnswers(i, j) ==
  /\ discovered[i].getLogsOk = discovered[j].getLogsOk
  /\ discovered[i].ownerOfOk = discovered[j].ownerOfOk

Ranges(qs) == [i \in 1..Len(qs) |-> <<qs[i].fromBlock, qs[i].toBlock>>]

ScansExample == discArgs.startBlock = 0 /\ discArgs.latestBlock = 2500

\* C12 as stated: scanning blocks 0 to 2500 with window size 1000 issues exactly the
\* three log queries [0,1000], [1001,2000], [2001,2500], in that order.
C12_WindowExample ==
  \A n \in 1..Len(discovered) :
    ScansExample
      => Ranges(discovered[n].queries) = <<<<0, 1000>>, <<1001, 2000>>, <<2001, 2500>>>>

\* C12 amended: scanning blocks 0 to 2500 with MAX_LOG_RANGE_BLOCKS = 1000 issues exactly
\* the three log queries [0,1000], [1001,2001], [2002,2500], in that order.
C12_WindowExampleAsCoded ==
  \A n \in 1..Len(discovered) :
    (ScansExample /\ MAX_LOG_RANGE_BLOCKS = 1000)
      => Ranges(discovered[n].queries) = <<<<0, 1000>>, <<1001, 2001>>, <<2002, 2500>>>>

\* Blocks 0 to 2500 have been scanned.
C12_Witness == ScansExample /\ Len(discovered) >= 1

\* C13: for 0 <= startBlock <= latestBlock the windows queried for an owner are
\* consecutive and non-overlapping: the first starts at startBlock, each next one at the
\* previous toBlock + 1, the last ends at latestBlock, and no window is empty.
C13_WindowCoverage ==
  \A n \in 1..Len(discovered) :
    LET qs == discovered[n].queries IN
    (0 <= discArgs.startBlock /\ discArgs.startBlock <= discArgs.latestBlock)
      => /\ Len(qs) >= 1
         /\ qs[1].fromBlock = discArgs.startBlock
         /\ qs[Len(qs)].toBlock = discArgs.latestBlock
         /\ \A i \in 1..Len(qs) : qs[i].fromBlock <= qs[i].toBlock
         /\ \A i \in 2..Len(qs) : qs[i].fromBlock = qs[i-1].toBlock + 1

\* A range that needs three windows, the last one shorter, has been scanned.
C13_Witness ==
  /\ Len(discovered) >= 1
  /\ Len(discovered[1].queries) = 3
  /\ discArgs.startBlock <= discArgs.latestBlock
  /\ discovered[1].queries[3].toBlock - discovered[1].queries[3].fromBlock < MAX_LOG_RANGE_BLOCKS

\* The ids of the ERC-721 Transfer logs (four topics) to the owner that lie in a window
\* whose getLogs call returned.
FetchedIds(e) ==
  {t \in TokenIds :
     \E k \in 1..Len(e.onChain.logs) : \E i \in 1..Len(e.queries) :
       LET log == e.onChain.logs[k] q == e.queries[i] IN
       /\ q.ok /\ log.blockNumber >= q.fromBlock /\ log.blockNumber <= q.toBlock
       /\ log.topics = 4 /\ log.tokenId = t
       /\ getAddress(log.to) = getAddress(discArgs.owner)}

\* C14: discovery returns exactly the ids found in the logs of the windows whose fetch
\* succeeded and whose ownership read succeeds and equals the owner, each id once; a
\* failed fetch or a failed ownership read removes nothing else and ends nothing.
C14_Reconciliation ==
  \A n \in 1..Len(discovered) :
    LET e == discovered[n] IN
    /\ IdSet(e.ownedNow) =
         {t \in FetchedIds(e) :
            e.ownerOfOk[t] /\ t \in DOMAIN e.onChain.ownerOf
            /\ getAddress(e.onChain.ownerOf[t]) = getAddress(discArgs.owner)}
    /\ Cardinality(IdSet(e.ownedNow)) = Len(e.ownedNow)

\* A call in which one window's fetch failed and one candidate's ownership read failed
\* still returned an id.
C14_Witness ==
  \E n \in 1..Len(discovered) :
    LET e == discovered[n] IN
    /\ \E i \in 1..Len(e.queries) : ~e.queries[i].ok
    /\ \E t \in FetchedIds(e) : ~e.ownerOfOk[t]
    /\ e.ownedNow # <<>>

-----------------------------------------------------------------------------
(* The tier classifiers as functions: thresholds from .env, any input *)

\* .env: threshold sets in order, all equal, and out of order
ClassifyEnvs ==
  {[set |-> TRUE,
    LIQ_BUFFER_WARN |-> liq[1], LIQ_BUFFER_HIGH |-> liq[2], LIQ_BUFFER_CRIT |-> liq[3],
    REDEMP_BELOW_HIGH |-> red[1], REDEMP_BELOW_MED |-> red[2], REDEMP_NEUTRAL_ABS |-> red[3],
    CDP_REDEMPTION_TRIGGER |-> 990,
    LIQ_ALERT_MIN_TIER |-> "MEDIUM", REDEMP_ALERT_MIN_TIER |-> "MEDIUM",
    LP_ALERT_MIN_TIER |-> "HIGH",
    LP_EDGE_WARN_FRAC |-> lp[1], LP_EDGE_HIGH_FRAC |-> lp[2],
    LP_OUT_WARN_FRAC |-> lp[3], LP_OUT_HIGH_FRAC |-> lp[4]] :
      liq \in {<<200, 100, 50>>, <<100, 100, 100>>, <<100, 50, 200>>},
      red \in {<<-100, -50, 25>>, <<-50, -100, 25>>},
      lp \in {<<100, 50, 50, 200>>, <<50, 100, 200, 50>>}}

\* bufferFrac: null or not finite, and fractions below, on and above the thresholds
BufferFracs ==
  {NoFrac}
  \cup {[num |-> n, den |-> 1000] : n \in {-50, 0, 30, 50, 51, 100, 101, 150, 200, 201, 400}}
  \cup {[num |-> 1, den |-> 20], [num |-> 1, den |-> 10], [num |-> 1, den |-> 5]}

InterestPcts == {Null, NaN} \cup {Some(n) : n \in {350, 400, 425, 450, 475, 500, 525, 600}}

GlobalPcts == {Null, NaN, Some(500)}

\* rangeStatus, the position's ticks (a zero or negative width is unusable) and the
\* pool's tick (Null for a tick that is not a finite number)
LpRangeInputs ==
  [currentTick : {Null} \cup {Some(t) : t \in {-21, -20, -5, 0, 5, 6, 10, 11, 50, 95, 99, 100,
                                              105, 106, 120, 121}},
   normStatus : {"IN_RANGE", "OUT_OF_RANGE", "UNKNOWN"},
   tickLower : {0}, tickUpper : {-100, 0, 100}]

\* a classifier call changes nothing but the record of what it returned
ClassifierFrame ==
  /\ UNCHANGED <<env, alertState, calls, last, liqTrace, evaluated, discord, startup,
                 dmTasks, inbox>>
  /\ UNCHANGED schedVars
  /\ UNCHANGED scanVars

ClassifyLiquidation ==
  \E bufferFrac \in BufferFracs :
    /\ classified' = <<[kind |-> "LIQUIDATION", tier |-> classifyLiquidationRisk(bufferFrac),
                         bufferFrac |-> bufferFrac]>>
    /\ ClassifierFrame

ClassifyRedemption ==
  \E interestPct \in InterestPcts, globalPct \in GlobalPcts :
    /\ classified' = <<[kind |-> "REDEMPTION",
                         tier |-> classifyRedemptionTier(interestPct, globalPct),
                         interestPct |-> interestPct, globalPct |-> globalPct]>>
    /\ ClassifierFrame

ClassifyLpRange ==
  \E in \in LpRangeInputs :
    /\ classified' = <<[kind |-> "LP_RANGE",
                         tier |-> classifyLpRangeTier(in.normStatus, in.tickLower,
                                                      in.tickUpper, in.currentTick),
                         in |-> in]>>
    /\ ClassifierFrame

InitClassify == env \in ClassifyEnvs /\ EngineInit /\ SchedIdle /\ ScanIdle

NextClassify == ClassifyLiquidation \/ ClassifyRedemption \/ ClassifyLpRange

SpecClassify == InitClassify /\ [][NextClassify]_vars

FracGt(f, thousandths) == f.den # 0 /\ f.num * 1000 > thousandths * f.den

IsLiq(c) == c.kind = "LIQUIDATION"
IsRed(c) == c.kind = "REDEMPTION"
IsLp(c) == c.kind = "LP_RANGE"

\* C15 as stated: for any thresholds, a buffer equal to crit is CRITICAL, equal to high
\* and above crit is HIGH, equal to warn and above high is MEDIUM.
C15_LiquidationBoundary ==
  \A n \in 1..Len(classified) :
    LET c == classified[n] IN
    IsLiq(c) =>
      /\ FracIs(c.bufferFrac, env.LIQ_BUFFER_CRIT) => c.tier = "CRITICAL"
      /\ (FracIs(c.bufferFrac, env.LIQ_BUFFER_HIGH) /\ FracGt(c.bufferFrac, env.LIQ_BUFFER_CRIT))
           => c.tier = "HIGH"
      /\ (FracIs(c.bufferFrac, env.LIQ_BUFFER_WARN) /\ FracGt(c.bufferFrac, env.LIQ_BUFFER_HIGH))
           => c.tier = "MEDIUM"

\* C15 amended: for any thresholds, a buffer equal to crit is CRITICAL, equal to high
\* and above crit is HIGH, equal to warn and above both high and crit is MEDIUM.
C15_LiquidationBoundaryAboveBoth ==
  \A n \in 1..Len(classified) :
    LET c == classified[n] IN
    IsLiq(c) =>
      /\ FracIs(c.bufferFrac, env.LIQ_BUFFER_CRIT) => c.tier = "CRITICAL"
      /\ (FracIs(c.bufferFrac, env.LIQ_BUFFER_HIGH) /\ FracGt(c.bufferFrac, env.LIQ_BUFFER_CRIT))
           => c.tier = "HIGH"
      /\ (/\ FracIs(c.bufferFrac, env.LIQ_BUFFER_WARN)
          /\ FracGt(c.bufferFrac, env.LIQ_BUFFER_HIGH)
          /\ FracGt(c.bufferFrac, env.LIQ_BUFFER_CRIT))
           => c.tier = "MEDIUM"

\* A buffer equal to the warn threshold, above high and crit, has been classified.
C15_Witness ==
  \E n \in 1..Len(classified) :
    LET c == classified[n] IN
    /\ IsLiq(c)
    /\ FracIs(c.bufferFrac, env.LIQ_BUFFER_WARN)
    /\ FracGt(c.bufferFrac, env.LIQ_BUFFER_HIGH)
    /\ FracGt(c.bufferFrac, env.LIQ_BUFFER_CRIT)

\* The thresholds of each kind are in their intended order.
OrderedThresholds ==
  /\ env.LIQ_BUFFER_CRIT < env.LIQ_BUFFER_HIGH /\ env.LIQ_BUFFER_HIGH < env.LIQ_BUFFER_WARN
  /\ env.REDEMP_BELOW_HIGH < env.REDEMP_BELOW_MED
  /\ env.LP_EDGE_HIGH_FRAC < env.LP_EDGE_WARN_FRAC
  /\ env.LP_OUT_WARN_FRAC < env.LP_OUT_HIGH_FRAC

RedFinite(c) == IsFiniteNumber(c.interestPct) /\ IsFiniteNumber(c.globalPct)
RedDiff(c) == c.interestPct[1] - c.globalPct[1]
RedAbsDiff(c) == IF RedDiff(c) < 0 THEN -RedDiff(c) ELSE RedDiff(c)

LpWidth(c) == c.in.tickUpper - c.in.tickLower
LpUsable(c) == LpWidth(c) > 0 /\ c.in.currentTick # Null
LpTick(c) == c.in.currentTick[1]
\* the distance to the nearest edge of a tick inside the band, in ticks
LpCenterDist(c) ==
  IF LpTick(c) - c.in.tickLower <= c.in.tickUpper - LpTick(c)
  THEN LpTick(c) - c.in.tickLower ELSE c.in.tickUpper - LpTick(c)
\* the distance to the band of a tick outside it, in ticks
LpDistance(c) ==
  IF LpTick(c) < c.in.tickLower THEN c.in.tickLower - LpTick(c) ELSE LpTick(c) - c.in.tickUpper
LpInside(c) == LpTick(c) >= c.in.tickLower /\ LpTick(c) < c.in.tickUpper
LpInRange(c) == IsLp(c) /\ c.in.normStatus = "IN_RANGE" /\ LpUsable(c) /\ LpInside(c)
LpOutOfRange(c) == IsLp(c) /\ c.in.normStatus = "OUT_OF_RANGE" /\ LpUsable(c) /\ ~LpInside(c)

\* C16 as stated (read for thresholds in their intended order): in every classifier a
\* metric equal to a threshold gets the more severe of the two tiers the threshold separates.
C16_TieBreakHigherSeverity ==
  \A n \in 1..Len(classified) :
    LET c == classified[n] IN
    OrderedThresholds =>
      /\ IsLiq(c) =>
           /\ FracIs(c.bufferFrac, env.LIQ_BUFFER_CRIT) => c.tier = "CRITICAL"
           /\ FracIs(c.bufferFrac, env.LIQ_BUFFER_HIGH) => c.tier = "HIGH"
           /\ FracIs(c.bufferFrac, env.LIQ_BUFFER_WARN) => c.tier = "MEDIUM"
      /\ (IsRed(c) /\ RedFinite(c)) =>
           /\ RedDiff(c) = env.REDEMP_BELOW_HIGH => c.tier = "HIGH"
           /\ RedDiff(c) = env.REDEMP_BELOW_MED => c.tier = "MEDIUM"
           /\ (RedAbsDiff(c) = env.REDEMP_NEUTRAL_ABS /\ RedDiff(c) > env.REDEMP_BELOW_MED)
                => c.tier = "NEUTRAL"
      /\ LpInRange(c) =>
           /\ LpCenterDist(c) * 1000 = env.LP_EDGE_HIGH_FRAC * LpWidth(c) => c.tier = "HIGH"
           /\ LpCenterDist(c) * 1000 = env.LP_EDGE_WARN_FRAC * LpWidth(c) => c.tier = "MEDIUM"
      /\ LpOutOfRange(c) =>
           /\ LpDistance(c) * 1000 = env.LP_OUT_WARN_FRAC * LpWidth(c) => c.tier = "HIGH"
           /\ LpDistance(c) * 1000 = env.LP_OUT_HIGH_FRAC * LpWidth(c) => c.tier = "CRITICAL"

\* C16 amended: the liquidation, redemption and in-range classifiers test their
\* thresholds most-severe-first with <=, so a metric equal to a threshold gets that
\* threshold's tier unless a more severe threshold matches too; the out-of-range
\* classifier tests least-severe-first: a distance equal to outWarn is MEDIUM, a distance
\* equal to outHigh and above outWarn is HIGH.
C16_TieBreakAsCoded ==
  \A n \in 1..Len(classified) :
    LET c == classified[n] IN
    /\ IsLiq(c) =>
         /\ FracIs(c.bufferFrac, env.LIQ_BUFFER_CRIT) => c.tier = "CRITICAL"
         /\ (FracIs(c.bufferFrac, env.LIQ_BUFFER_HIGH) /\ FracGt(c.bufferFrac, env.LIQ_BUFFER_CRIT))
              => c.tier = "HIGH"
         /\ (/\ FracIs(c.bufferFrac, env.LIQ_BUFFER_WARN)
             /\ FracGt(c.bufferFrac, env.LIQ_BUFFER_HIGH)
             /\ FracGt(c.bufferFrac, env.LIQ_BUFFER_CRIT)) => c.tier = "MEDIUM"
    /\ (IsRed(c) /\ RedFinite(c)) =>
         /\ RedDiff(c) = env.REDEMP_BELOW_HIGH => c.tier = "HIGH"
         /\ (RedDiff(c) = env.REDEMP_BELOW_MED /\ RedDiff(c) > env.REDEMP_BELOW_HIGH)
              => c.tier = "MEDIUM"
         /\ (/\ RedAbsDiff(c) = env.REDEMP_NEUTRAL_ABS
             /\ RedDiff(c) > env.REDEMP_BELOW_HIGH
             /\ RedDiff(c) > env.REDEMP_BELOW_MED) => c.tier = "NEUTRAL"
    /\ LpInRange(c) =>
         /\ LpCenterDist(c) * 1000 = env.LP_EDGE_HIGH_FRAC * LpWidth(c) => c.tier = "HIGH"
         /\ (/\ LpCenterDist(c) * 1000 = env.LP_EDGE_WARN_FRAC * LpWidth(c)
             /\ LpCenterDist(c) * 1000 > env.LP_EDGE_HIGH_FRAC * LpWidth(c)) => c.tier = "MEDIUM"
    /\ LpOutOfRange(c) =>
         /\ LpDistance(c) * 1000 = env.LP_OUT_WARN_FRAC * LpWidth(c) => c.tier = "MEDIUM"
         /\ (/\ LpDistance(c) * 1000 = env.LP_OUT_HIGH_FRAC * LpWidth(c)
             /\ LpDistance(c) * 1000 > env.LP_OUT_WARN_FRAC * LpWidth(c)) => c.tier = "HIGH"

\* An out-of-range distance equal to the outWarn threshold has been classified, with
\* thresholds in their intended order.
C16_Witness ==
  \E n \in 1..Len(classified) :
    LET c == classified[n] IN
    /\ OrderedThresholds
    /\ LpOutOfRange(c)
    /\ LpDistance(c) * 1000 = env.LP_OUT_WARN_FRAC * LpWidth(c)

Tiers == {"LOW", "NEUTRAL", "MEDIUM", "HIGH", "CRITICAL", "UNKNOWN"}
LpTicksUnusable(c) == ~LpUsable(c)

\* C17 as stated: every classifier returns a tier for every input, and the tier is
\* UNKNOWN whenever the buffer, the trove's own interest rate, the global reference
\* rate or the ticks are missing or not finite.
C17_TotalWithUnknownDefault ==
  \A n \in 1..Len(classified) :
    LET c == classified[n] IN
    /\ c.tier \in Tiers
    /\ (IsLiq(c) /\ c.bufferFrac.den = 0) => c.tier = "UNKNOWN"
    /\ (IsRed(c) /\ ~RedFinite(c)) => c.tier = "UNKNOWN"
    /\ (IsLp(c) /\ LpTicksUnusable(c)) => c.tier = "UNKNOWN"

\* C18 (its loan half): a row whose trove has zero debt is never submitted to the alert
\* engine, so it causes no NEW or UPDATED notification.
C18_ZeroDebtNeverSubmitted ==
  \A n \in 1..Len(evaluated) :
    (evaluated[n].readOk /\ evaluated[n].debt = 0) => evaluated[n].submitted = <<>>

\* C19. A redemption alert is submitted as active exactly when the redemption state is
\* ACTIVE and the redemption tier meets REDEMP_ALERT_MIN_TIER (UNKNOWN never meets a
\* minimum); with state DORMANT or UNKNOWN it is submitted as inactive.
C19_RedemptionGating ==
  \A n \in 1..Len(evaluated) :
    \A k \in 1..Len(evaluated[n].submitted) :
      LET c == evaluated[n].submitted[k] IN
      c.alertType = "REDEMPTION" =>
        (c.isActive <=>
           /\ evaluated[n].cdpState = "ACTIVE"
           /\ c.tier # "UNKNOWN"
           /\ IndexOf(REDEMP_TIER_ORDER, c.tier)
                >= IndexOf(REDEMP_TIER_ORDER, env.REDEMP_ALERT_MIN_TIER))

\* C20. A row whose trove was read but for which no price source gave a non-zero price
\* still has its redemption risk submitted; only the liquidation evaluation is left out.
C20_MissingPriceStillEvaluates ==
  \A n \in 1..Len(evaluated) :
    (evaluated[n].readOk /\ evaluated[n].rawPrice = 0) =>
      /\ \E k \in 1..Len(evaluated[n].submitted) :
           evaluated[n].submitted[k].alertType = "REDEMPTION"
      /\ \A k \in 1..Len(evaluated[n].submitted) :
           evaluated[n].submitted[k].alertType # "LIQUIDATION"

-----------------------------------------------------------------------------
(* The alert engine while the Discord side fails and recovers *)

MaxDmCalls == 3

\* no client (require('../index') failed or has no users), users.fetch rejects, users.fetch
\* resolves to nothing, user.send rejects, or everything works
DiscordStates == {"noClient", "fetchFails", "noUser", "sendFails", "up"}

DmTestData ==
  [protocol : {"TEST_LIQ_PROTOCOL"}, wallet : {"0xTEST_WALLET"},
   positionId : {"TEST_LIQ_POSITION"}, isActive : BOOLEAN, tier : {"MEDIUM", "HIGH"}]

CallWithDm ==
  /\ Len(calls) < MaxDmCalls
  /\ \E d \in DmTestData : HandlerCall(handleLiquidationAlert(alertState, d))

DiscordChanges ==
  /\ \E c \in DiscordStates \ {discord} : discord' = c
  /\ UNCHANGED <<env, alertState, calls, last, liqTrace, classified, evaluated, startup,
                 dmTasks, inbox>>
  /\ UNCHANGED schedVars
  /\ UNCHANGED scanVars

InitDelivery ==
  /\ env = NoEnv /\ alertState = EmptyMap /\ calls = <<>> /\ last = <<>> /\ liqTrace = <<>>
  /\ classified = <<>> /\ evaluated = <<>> /\ startup = Started
  /\ dmTasks = <<>> /\ inbox = <<>>
  /\ discord \in DiscordStates
  /\ SchedIdle /\ ScanIdle

NextDelivery == CallWithDm \/ DiscordChanges

SpecDelivery == InitDelivery /\ [][NextDelivery]_vars

\* A call that notifies leaves the record Active with the signature it received, and the
\* next active call of the key with that signature sends nothing.
StoredAndNotRetried(n) ==
  /\ calls[n].stored
  /\ calls[n].after = [isActive |-> TRUE, signature |-> calls[n].signature]
  /\ \A m \in (n+1)..Len(calls) :
       (/\ calls[m].key = calls[n].key /\ calls[m].isActive
        /\ calls[m].signature = calls[n].signature
        /\ \A k \in (n+1)..(m-1) : calls[k].key = calls[n].key => calls[k].dm = "NONE"
        /\ \A k \in (n+1)..(m-1) : calls[k].key = calls[n].key => calls[k].isActive)
       => ~calls[m].sendDm.called

\* C22. Notification is fire-and-forget: a NEW or UPDATED call stores the Active record
\* with the new signature whether or not the DM is delivered, a DM that is not delivered
\* is logged, and it is never sent again by later calls with the same signature.
C22_FireAndForget ==
  \A n \in 1..Len(calls) :
    calls[n].dm # "NONE" =>
      /\ StoredAndNotRetried(n)
      /\ ~calls[n].sendDm.delivered => calls[n].sendDm.logged

-----------------------------------------------------------------------------
(* The handlers called with the metrics the monitors pass along with the tier *)

MaxMetricCalls == 3

\* handleLiquidationAlert(data): tier with ltvPct, currentPrice, liquidationBufferFrac
MetricLiqData ==
  [protocol : {"ENOSYS_LOAN_FXRP"}, wallet : {"0xOWNER"}, positionId : {"1"},
   isActive : BOOLEAN, tier : {"MEDIUM", "HIGH"},
   ltvPct : {450, 600}, currentPrice : {1000}, liquidationBufferFrac : {150}]

\* handleRedemptionAlert(data): tier with cdpIR, globalIR, isCDPActive
MetricRedempData ==
  [protocol : {"ENOSYS_LOAN_FXRP"}, wallet : {"0xOWNER"}, positionId : {"1"},
   isActive : {TRUE}, tier : {"MEDIUM", "HIGH"},
   cdpIR : {300, 400}, globalIR : {500}, isCDPActive : {TRUE}]

\* handleLpRangeAlert(data): currentStatus and lpRangeTier with prevStatus and the ticks
MetricLpData ==
  [protocol : {"ENOSYS_LP"}, wallet : {"0xOWNER"}, positionId : {"7"},
   isActive : {TRUE}, currentStatus : {"OUT_OF_RANGE"}, lpRangeTier : {"HIGH", "CRITICAL"},
   prevStatus : {"OUT_OF_RANGE"}, tickLower : {0}, tickUpper : {100}, currentTick : {150, 400}]

\* A call record together with the data the handler was given.
WithData(call, data) ==
  [f \in DOMAIN call \cup {"data"} |-> IF f = "data" THEN data ELSE call[f]]

MetricCall(res, data) ==
  /\ Len(calls) < MaxMetricCalls
  /\ alertState' = res.state
  /\ calls' = Append(calls, WithData(WithDm(res.call, discord), data))
  /\ UNCHANGED <<env, last, liqTrace, classified, evaluated, discord, startup, dmTasks, inbox>>
  /\ UNCHANGED schedVars
  /\ UNCHANGED scanVars

LiquidationWithMetrics ==
  \E d \in MetricLiqData : MetricCall(handleLiquidationAlert(alertState, d), d)

RedemptionWithMetrics ==
  \E d \in MetricRedempData : MetricCall(handleRedemptionAlert(alertState, d), d)

LpRangeWithMetrics ==
  \E d \in MetricLpData : MetricCall(handleLpRangeAlert(alertState, d), d)

NextMetrics == LiquidationWithMetrics \/ RedemptionWithMetrics \/ LpRangeWithMetrics

SpecMetrics == InitEngine /\ [][NextMetrics]_vars

\* Two calls carry the same tier and, for a range alert, the same range status.
SameTierAndStatus(a, b) ==
  /\ a.tier = b.tier
  /\ a.alertType = "LP_RANGE" => a.data.currentStatus = b.data.currentStatus

\* Calls i and i+1 of one key are active, the alert is Active in between, the tier (and
\* range status) is the same and the metric values differ.
MetricNoise(K, i) ==
  /\ i + 1 <= Len(K)
  /\ K[i].isActive /\ K[i+1].isActive /\ K[i+1].prev.isActive
  /\ SameTierAndStatus(K[i], K[i+1])
  /\ K[i].data # K[i+1].data

\* C23. Signature ignores metric noise: on an Active alert, an active call with the same
\* tier (and range status) but other metric values sends nothing and leaves the record
\* as it was.
C23_SignatureIgnoresMetrics ==
  \A key \in CalledKeys :
    LET K == CallsOf(key) IN
    \A i \in 1..Len(K) :
      MetricNoise(K, i) =>
        /\ K[i+1].dm = "NONE" /\ ~K[i+1].sendDm.called
        /\ K[i+1].after = K[i+1].prev
        /\ K[i+1].after = K[i].after

\* A range alert has been called three times with one status and tier and other ticks.
C23_Witness ==
  \E key \in CalledKeys :
    /\ key[1] = "LP_RANGE"
    /\ MetricNoise(CallsOf(key), 1) /\ MetricNoise(CallsOf(key), 2)

-----------------------------------------------------------------------------
(* The frame of a processAlert call, over the handler commands *)

\* The call this step appended to the history.
NewCall == calls'[Len(calls')]

\* C25. Alert Engine frame: a call on an Inactive (or absent) record with isActive false
\* creates no record, an active call on an Active record with the same signature changes
\* nothing, and every call leaves the records of all other keys as they were.
C25_EngineFrame ==
  [][calls' # calls =>
       /\ \A k \in DOMAIN alertState \ {NewCall.key} :
            k \in DOMAIN alertState' /\ alertState'[k] = alertState[k]
       /\ DOMAIN alertState' \subseteq DOMAIN alertState \cup {NewCall.key}
       /\ (~NewCall.isActive /\ ~NewCall.prev.isActive) => alertState' = alertState
       /\ (/\ NewCall.isActive /\ NewCall.prev.isActive
           /\ NewCall.prev.signature = NewCall.signature) => alertState' = alertState]_vars

\* With another key's alert Active, a key without a record was called inactive, and an
\* Active key was called again with its signature.
C25_Witness ==
  \E n \in 1..Len(calls) : \E m \in 1..Len(calls) : \E a \in 1..Len(calls) :
    /\ a < n /\ a < m
    /\ calls[a].after.isActive /\ calls[a].key # calls[n].key /\ calls[a].key # calls[m].key
    /\ ~calls[n].isActive /\ ~calls[n].prev.isActive /\ ~calls[n].stored
    /\ calls[m].isActive /\ calls[m].prev.isActive /\ calls[m].prev.signature = calls[m].signature

-----------------------------------------------------------------------------
(* getOraclePrice over every answer of the three price sources *)

\* fetchPrice(), lastGoodPrice(), fetchRedemptionPrice(): each throws or answers; the
\* sources answer different prices, so the price returned names its source.
AllPriceFeeds ==
  [fetchPrice : {[ok |-> FALSE, price |-> 0, valid |-> FALSE]}
                  \cup [ok : {TRUE}, price : {0, 1000, 1010}, valid : BOOLEAN],
   lastGoodPrice : {[ok |-> FALSE, price |-> 0]} \cup [ok : {TRUE}, price : {0, 990, 995}],
   fetchRedemptionPrice : {[ok |-> FALSE, price |-> 0, valid |-> FALSE]}
                            \cup [ok : {TRUE}, price : {0, 980, 985}, valid : BOOLEAN]]

OraclePriceCall ==
  \E feed \in AllPriceFeeds :
    /\ classified' = <<[feed |-> feed, rawPrice |-> getOraclePrice(feed), kind |-> "PRICE"]>>
    /\ ClassifierFrame

SpecPrice == InitClassify /\ [][OraclePriceCall]_vars

\* The source answered without error a non-zero price (and a true validity flag).
LiveUsable(feed) == feed.fetchPrice.ok /\ feed.fetchPrice.valid /\ feed.fetchPrice.price # 0
LastGoodUsable(feed) == feed.lastGoodPrice.ok /\ feed.lastGoodPrice.price # 0
RedemptionUsable(feed) ==
  /\ feed.fetchRedemptionPrice.ok /\ feed.fetchRedemptionPrice.valid
  /\ feed.fetchRedemptionPrice.price # 0

\* C24. Price source priority: the price is that of the first usable source in the order
\* live price, last-known-good price, redemption price; a source that throws, answers
\* zero or is flagged invalid is skipped; with no usable source there is no price.
C24_PriceSourcePriority ==
  \A n \in 1..Len(classified) :
    LET c == classified[n] IN
    c.kind = "PRICE" =>
      /\ LiveUsable(c.feed) => c.rawPrice = c.feed.fetchPrice.price
      /\ (~LiveUsable(c.feed) /\ LastGoodUsable(c.feed))
           => c.rawPrice = c.feed.lastGoodPrice.price
      /\ (~LiveUsable(c.feed) /\ ~LastGoodUsable(c.feed) /\ RedemptionUsable(c.feed))
           => c.rawPrice = c.feed.fetchRedemptionPrice.price
      /\ (~LiveUsable(c.feed) /\ ~LastGoodUsable(c.feed) /\ ~RedemptionUsable(c.feed))
           => c.rawPrice = 0

\* The live source answered a price flagged invalid while the other two were usable,
\* and the last-known-good price was returned.
C24_Witness ==
  \E n \in 1..Len(classified) :
    LET c == classified[n] IN
    /\ c.kind = "PRICE"
    /\ c.feed.fetchPrice.ok /\ c.feed.fetchPrice.price # 0 /\ ~c.feed.fetchPrice.valid
    /\ LastGoodUsable(c.feed) /\ RedemptionUsable(c.feed)
    /\ c.rawPrice = c.feed.lastGoodPrice.price

-----------------------------------------------------------------------------
(* Loading the configuration: the strict env helpers of loanMonitor.js and
   lpMonitor.js, run when onReady.js requires the monitors *)

\* process.env[name]: Null when the variable is not set, Some(text) otherwise
RawNumbers == {Null, Some(""), Some(" "), Some("abc"), Some("Infinity"), Some("0.2")}

RawEnvs ==
  [LIQ_BUFFER_WARN : RawNumbers,
   CDP_REDEMPTION_TRIGGER : {Null, Some("abc"), Some("0.99")},
   LIQ_ALERT_MIN_TIER : {Null, Some(""), Some("MEDIUM"), Some("medium"), Some("SEVERE")},
   LP_EDGE_WARN_FRAC : {Some(" "), Some("NaN"), Some("0.1")}]

\* Number(raw), in thousandths: text of white space only converts to 0, text that is
\* not a numeral to NaN, "Infinity" to a number that is not finite.
JsNumber(text) ==
  IF text = "" \/ text = " " THEN Some(0)
  ELSE IF text = "0.1" THEN Some(100)
  ELSE IF text = "0.2" THEN Some(200)
  ELSE IF text = "0.99" THEN Some(990)
  ELSE NaN

\* requireEnv(name): process.exit(1) when the variable is undefined, null or ''
requireEnv(raw) ==
  IF raw = Null \/ raw = Some("") THEN [exit |-> TRUE, value |-> raw]
  ELSE [exit |-> FALSE, value |-> raw]

\* requireNumberEnv(name): requireEnv, then process.exit(1) unless Number(raw) is finite
requireNumberEnv(raw) ==
  IF requireEnv(raw).exit THEN [exit |-> TRUE, value |-> 0]
  ELSE IF ~IsFiniteNumber(JsNumber(raw[1])) THEN [exit |-> TRUE, value |-> 0]
  ELSE [exit |-> FALSE, value |-> JsNumber(raw[1])[1]]

\* requireEnv, then process.exit(1) unless the tier order includes the text
requireTierEnv(raw, order) ==
  IF requireEnv(raw).exit THEN [exit |-> TRUE, value |-> ""]
  ELSE IF IndexOf(order, raw[1]) = -1 THEN [exit |-> TRUE, value |-> ""]
  ELSE [exit |-> FALSE, value |-> raw[1]]

\* The variables this model does not vary are set to valid values.
BaseEnv == CHOOSE e \in Envs : e.LIQ_ALERT_MIN_TIER = "MEDIUM"

\* require('../monitoring/loanMonitor'), require('../monitoring/lpMonitor'): the first
\* helper that fails ends the process, otherwise the constants are defined.
LoadConfig ==
  /\ startup.pc = "loading"
  /\ LET warn == requireNumberEnv(startup.raw.LIQ_BUFFER_WARN)
         trigger == requireNumberEnv(startup.raw.CDP_REDEMPTION_TRIGGER)
         minTier == requireTierEnv(startup.raw.LIQ_ALERT_MIN_TIER, LIQ_TIER_ORDER)
         edgeWarn == requireNumberEnv(startup.raw.LP_EDGE_WARN_FRAC)
     IN  IF warn.exit \/ trigger.exit \/ minTier.exit \/ edgeWarn.exit
         THEN /\ startup' = [startup EXCEPT !.pc = "exited"]
              /\ UNCHANGED env
         ELSE /\ startup' = [startup EXCEPT !.pc = "running"]
              /\ env' = [BaseEnv EXCEPT !.LIQ_BUFFER_WARN = warn.value,
                                        !.CDP_REDEMPTION_TRIGGER = trigger.value,
                                        !.LIQ_ALERT_MIN_TIER = minTier.value,
                                        !.LP_EDGE_WARN_FRAC = edgeWarn.value]
  /\ UNCHANGED <<alertState, calls, last, liqTrace, classified, evaluated, discord, dmTasks,
                 inbox>>
  /\ UNCHANGED schedVars
  /\ UNCHANGED scanVars

\* The startup pass of the running bot
FirstPass ==
  /\ startup.pc = "running"
  /\ evaluated = <<>>
  /\ MonitorLoans

InitStartup ==
  /\ env = NoEnv /\ alertState = EmptyMap /\ calls = <<>> /\ last = <<>> /\ liqTrace = <<>>
  /\ classified = <<>> /\ evaluated = <<>> /\ discord = "up"
  /\ dmTasks = <<>> /\ inbox = <<>>
  /\ startup \in [pc : {"loading"}, raw : RawEnvs]
  /\ SchedIdle /\ ScanIdle

NextStartup == LoadConfig \/ FirstPass

SpecStartup == InitStartup /\ [][NextStartup]_vars

\* The text is the numeral of a finite number.
Numerals == {"0.1", "0.2", "0.99"}

\* A required number is missing or is not a finite number
BadNumber(raw) == raw = Null \/ raw[1] \notin Numerals

\* A minimum tier is missing or outside its enumerated set
BadTier(raw, order) == raw = Null \/ \A i \in 1..Len(order) : order[i] # raw[1]

InvalidConfig(raw) ==
  \/ BadNumber(raw.LIQ_BUFFER_WARN) \/ BadNumber(raw.CDP_REDEMPTION_TRIGGER)
  \/ BadNumber(raw.LP_EDGE_WARN_FRAC)
  \/ BadTier(raw.LIQ_ALERT_MIN_TIER, LIQ_TIER_ORDER)

\* C27. Invalid configuration halts startup: with a required threshold, the redemption
\* trigger or a minimum tier missing, not a finite number or outside its set, the process
\* never runs: it exits while loading, and no pass evaluates or submits anything.
C27_InvalidConfigHalts ==
  InvalidConfig(startup.raw) =>
    /\ startup.pc \in {"loading", "exited"}
    /\ evaluated = <<>> /\ last = <<>> /\ alertState = EmptyMap

-----------------------------------------------------------------------------
(* A whole monitoring pass, monitorLoans() then monitorLPs(), over two loan
   contracts and two LP contracts whose chain reads may throw *)

\* the rows of two loan contracts, in the order monitorLoans visits them
PassLoanPositions ==
  <<[protocol |-> "ENOSYS_LOAN_FXRP", owner |-> "0xOWNER", troveId |-> "1"],
    [protocol |-> "ENOSYS_LOAN_WFLR", owner |-> "0xOWNER", troveId |-> "2"]>>

\* the rows of two LP contracts, in the order monitorLPs visits them
PassLpPositions ==
  <<[protocol |-> "ENOSYS_LP", owner |-> "0xOWNER", tokenId |-> "7"],
    [protocol |-> "SPARKDEX_LP", owner |-> "0xOWNER", tokenId |-> "8"]>>

\* a trove read that throws, or one trove with or without a price
PassLoanReads == {r \in LoanReads : ~r.ok \/ (r.debt = 850 /\ r.interestPct = 300)}

\* a position read that throws, or a position in or out of its range
PassLpReads == {r \in LpReads : ~r.ok \/ (r.liquidity = 1 /\ r.pool.ok /\ r.pool.tick # 102)}

MonitorPass ==
  \E loanReads \in [1..Len(PassLoanPositions) -> PassLoanReads],
     lpReads \in [1..Len(PassLpPositions) -> PassLpReads] :
    LET loans == monitorLoanPositions(PassLoanPositions, alertState, 1, loanReads,
                                      classifyCdpRedemptionState(Some(980)),
                                      CHOOSE m \in GlobalIrMaps : m.ok)
        lps == monitorLpPositions(PassLpPositions, loans.state, 1, lpReads)
    IN  /\ alertState' = lps.state
        /\ last' = loans.calls \o lps.calls
        /\ evaluated' = loans.rows \o lps.rows
        /\ UNCHANGED <<env, calls, liqTrace, classified, discord, startup, dmTasks, inbox>>
        /\ UNCHANGED schedVars
        /\ UNCHANGED scanVars

SpecPass == InitLoans /\ [][MonitorPass]_vars

IsLoanRow(row) == "troveId" \in DOMAIN row

\* The position's own reads succeeded and gave what its evaluation needs.
Evaluable(row) ==
  IF IsLoanRow(row) THEN row.readOk /\ row.rawPrice # 0
  ELSE row.readOk /\ row.liquidity # 0

\* C21. Partial-failure isolation: a position whose chain read throws does not stop the
\* pass; every position of the pass is visited, and each one whose own reads succeed is
\* classified and submitted, loans to both loan handlers and LPs to the range handler.
C21_PartialFailureIsolation ==
  evaluated # <<>> =>
    /\ Len(evaluated) = Len(PassLoanPositions) + Len(PassLpPositions)
    /\ \A n \in 1..Len(evaluated) :
         Evaluable(evaluated[n]) =>
           Len(evaluated[n].submitted) = IF IsLoanRow(evaluated[n]) THEN 2 ELSE 1

\* The first loan and the first LP position threw, and the second loan and the second
\* LP position were submitted in the same pass.
C21_Witness ==
  /\ Len(evaluated) = 4
  /\ ~evaluated[1].readOk /\ evaluated[2].submitted # <<>>
  /\ ~evaluated[3].readOk /\ evaluated[4].submitted # <<>>

-----------------------------------------------------------------------------
(* Passes of monitorLPs over positions that move in and out of their range *)

\* .env with each minimum tier of the range alert
LpEnvs == {[BaseEnv EXCEPT !.LP_ALERT_MIN_TIER = m] : m \in {"MEDIUM", "HIGH", "CRITICAL"}}

\* positions() and slot0() for one position of ticks [0, 100): the pool's tick deep in
\* range, in range near the edge, out of range by 2, 10 and 50 per cent of the width;
\* slot0() failing; zero liquidity; positions() throwing.
LpGateReads ==
  [ok : {TRUE}, liquidity : {1}, tickLower : {0}, tickUpper : {100},
   pool : [ok : {TRUE}, tick : {2, 50, 102, 110, 150}]]
  \cup {r \in LpReads : ~r.ok \/ r.liquidity = 0 \/ ~r.pool.ok}

MonitorLPs ==
  \E readsOf \in [1..Len(PassLpPositions) -> LpGateReads] :
    LET res == monitorLpPositions(PassLpPositions, alertState, 1, readsOf) IN
    /\ alertState' = res.state
    /\ last' = res.calls
    /\ evaluated' = res.rows
    /\ UNCHANGED <<env, calls, liqTrace, classified, discord, startup, dmTasks, inbox>>
    /\ UNCHANGED schedVars
    /\ UNCHANGED scanVars

InitLp == env \in LpEnvs /\ EngineInit /\ SchedIdle /\ ScanIdle

SpecLp == InitLp /\ [][MonitorLPs]_vars

\* The range status the pass observed for a position, from what the chain answered.
ObservedStatus(reads) ==
  IF ~reads.pool.ok THEN "UNKNOWN"
  ELSE IF reads.tickLower <= reads.pool.tick /\ reads.pool.tick < reads.tickUpper
       THEN "IN_RANGE"
  ELSE "OUT_OF_RANGE"

TierMeetsLpMinimum(tier) ==
  /\ tier # "UNKNOWN"
  /\ \E i, j \in 1..Len(LP_TIER_ORDER) :
       LP_TIER_ORDER[i] = tier /\ LP_TIER_ORDER[j] = env.LP_ALERT_MIN_TIER /\ i >= j

\* C30. LP alert gating: a range alert is submitted as active exactly when the observed
\* status is OUT_OF_RANGE and the tier meets LP_ALERT_MIN_TIER; an IN_RANGE position is
\* never active, and an Active range alert is resolved by the pass that observes the
\* position IN_RANGE or UNKNOWN.
C30_LpAlertGating ==
  \A n \in 1..Len(evaluated) :
    \A k \in 1..Len(evaluated[n].submitted) :
      LET c == evaluated[n].submitted[k]
          status == ObservedStatus(evaluated[n].reads)
      IN  /\ c.isActive <=> (status = "OUT_OF_RANGE" /\ TierMeetsLpMinimum(c.tier))
          /\ status = "IN_RANGE" => ~c.isActive
          /\ (c.prev.isActive /\ status \in {"IN_RANGE", "UNKNOWN"})
               => c.after = [isActive |-> FALSE, signature |-> Null] /\ c.dm = "NONE"

\* An Active range alert has been resolved by a pass that observed the position in
\* range with tier HIGH, a tier that meets the minimum.
C30_Witness ==
  \E n \in 1..Len(evaluated) :
    \E k \in 1..Len(evaluated[n].submitted) :
      LET c == evaluated[n].submitted[k] IN
      /\ c.prev.isActive
      /\ ObservedStatus(evaluated[n].reads) = "IN_RANGE"
      /\ c.tier = "HIGH" /\ TierMeetsLpMinimum(c.tier)
      /\ ~c.isActive

-----------------------------------------------------------------------------
(* dev/discover_lp_positions.js: main() with the position store. The script is
   run as `node dev/discover_lp_positions.js enosys`; between two runs a line
   may be added to data/addresses.csv. *)

\* LP_CONTRACTS_FLR[key].address
NftAddress(lpConfig) ==
  IF lpConfig.key = "enosys" THEN "0xD9770b1C" ELSE "0xEE5FF5Bc"

StoreTokenIds == {"7", "8", "9"}

\* The Enosys NFT contract: token 7 went to the first owner in block 450, token 8
\* to the second address in block 600 and token 9 to the first owner in block
\* 1000. No token has moved since.
StoreChain ==
  [logs |-> <<[blockNumber |-> 450, to |-> "0xOWNER", tokenId |-> "7", topics |-> 4],
              [blockNumber |-> 600, to |-> "0xOTHER", tokenId |-> "8", topics |-> 4],
              [blockNumber |-> 1000, to |-> "0xOWNER", tokenId |-> "9", topics |-> 4]>>,
   ownerOf |-> [t \in StoreTokenIds |-> IF t = "8" THEN "0xOTHER" ELSE "0xOWNER"]]

\* results.push({ chain, protocol, contract: nftAddress, owner, tokenId })
PositionRow(lpConfig, owner, tokenId) ==
  [chain |-> "FLR", protocol |-> lpConfig.protocol, contract |-> NftAddress(lpConfig),
   owner |-> owner, tokenId |-> tokenId]

\* The owner loop of discoverForLpContract: each owner's getLogs calls and the
\* rows of the tokens discoverTokenIdsForOwner returned for it, in owner order.
RECURSIVE OwnerResults(_, _, _, _, _, _, _)
OwnerResults(lpConfig, owners, i, chainState, startBlock, latestBlock, getLogsOk) ==
  IF i > Len(owners) THEN [queries |-> <<>>, results |-> <<>>]
  ELSE LET res == discoverTokenIdsForOwner(chainState, lpConfig.protocol, owners[i],
                                           startBlock, latestBlock, getLogsOk[i],
                                           [t \in DOMAIN chainState.ownerOf |-> TRUE])
           rest == OwnerResults(lpConfig, owners, i + 1, chainState, startBlock,
                                latestBlock, getLogsOk)
       IN [queries |-> res.queries \o rest.queries,
           results |-> [k \in 1..Len(res.ownedNow) |->
                          PositionRow(lpConfig, owners[i], res.ownedNow[k])]
                       \o rest.results]

\* discoverForLpContract(provider, lpConfig, flrAddresses, lpState): the rows it
\* returns and the state it leaves, the checkpoint set to the latest block.
discoverForLpContractRows(lpConfig, state, owners, chainState, latestBlock, getLogsOk) ==
  LET startBlock == getStartBlock(state, "FLR", lpConfig.protocol, lpConfig.envStartKey)
      found == OwnerResults(lpConfig, owners, 1, chainState, startBlock, latestBlock, getLogsOk)
  IN [startBlock |-> startBlock,
      queries |-> found.queries,
      results |-> found.results,
      lpState |-> setLastScannedBlock(state, "FLR", lpConfig.protocol, latestBlock)]

\* appendPositionsCsv(outputPath, rows): nothing is written for no rows; else the
\* rows are written after the header (new file) or after the rows already there.
appendPositionsCsv(file, rows) == IF rows = <<>> THEN file ELSE file \o rows

\* The getLogs call that throws during one run of discoverForLpContract, as
\* <<owner index, window index>>; <<0, 0>> when every call returns.
GetLogsFailures == {<<0, 0>>} \cup ((1..2) \X (1..MaxWindows))

GetLogsOkExcept(fail) == [o \in 1..2 |-> [w \in 1..MaxWindows |-> <<o, w>> # fail]]

StoreEvent(kind, owners, startBlock, latestBlock, logsFailed, rows) ==
  [kind |-> kind, owners |-> owners, startBlock |-> startBlock, latestBlock |-> latestBlock,
   logsFailed |-> logsFailed, rows |-> rows]

\* main() up to the loop: the addresses and the scan state are loaded
MainStart ==
  /\ scanPc = "idle"
  /\ runNo < MaxRuns
  /\ addressesCsv # <<>>
  /\ scanPc' = "scanning"
  /\ todo' = enabledConfigs({"enosys"})
  /\ lpState' = stateFile
  /\ runStart' = stateFile
  /\ queries' = <<>>
  /\ runNo' = runNo + 1
  /\ UNCHANGED <<env, stateFile, onChain, discArgs, discovered>>
  /\ UNCHANGED storeVars
  /\ UNCHANGED engineVars
  /\ UNCHANGED schedVars

\* One iteration of main()'s loop: discoverForLpContract, then appendPositionsCsv.
\* The provider reports a latest block that is not behind the start block.
MainDiscoverAndAppend ==
  \E latestBlock \in LatestBlocks, fail \in GetLogsFailures :
    LET res == discoverForLpContractRows(Head(todo), lpState, addressesCsv, onChain,
                                         latestBlock, GetLogsOkExcept(fail))
    IN
    /\ scanPc = "scanning"
    /\ todo # <<>>
    /\ latestBlock >= res.startBlock
    /\ queries' = res.queries
    /\ lpState' = res.lpState
    /\ positionsCsv' = appendPositionsCsv(positionsCsv, res.results)
    /\ todo' = Tail(todo)
    /\ storeLog' = Append(storeLog,
                          StoreEvent("scanned", addressesCsv, res.startBlock, latestBlock,
                                     \E q \in 1..Len(res.queries) : ~res.queries[q].ok,
                                     res.results))
    /\ UNCHANGED <<env, stateFile, scanPc, runStart, runNo, onChain, discArgs, discovered,
                   addressesCsv>>
    /\ UNCHANGED engineVars
    /\ UNCHANGED schedVars

\* saveLpState(lpState), the end of main()
MainSave ==
  /\ scanPc = "scanning"
  /\ todo = <<>>
  /\ stateFile' = lpState
  /\ scanPc' = "idle"
  /\ lpState' = EmptyMap
  /\ storeLog' = Append(storeLog, StoreEvent("saved", addressesCsv, 0, 0, FALSE, <<>>))
  /\ UNCHANGED <<env, todo, runStart, queries, runNo, onChain, discArgs, discovered,
                 addressesCsv, positionsCsv>>
  /\ UNCHANGED engineVars
  /\ UNCHANGED schedVars

\* The run ends before saveLpState: a provider call rejects or the state file
\* cannot be written, main().catch logs it and the process exits. What was
\* appended to the position store stays.
MainFails ==
  /\ scanPc = "scanning"
  /\ scanPc' = "idle"
  /\ todo' = <<>>
  /\ lpState' = EmptyMap
  /\ storeLog' = Append(storeLog, StoreEvent("failed", addressesCsv, 0, 0, FALSE, <<>>))
  /\ UNCHANGED <<env, stateFile, runStart, queries, runNo, onChain, discArgs, discovered,
                 addressesCsv, positionsCsv>>
  /\ UNCHANGED engineVars
  /\ UNCHANGED schedVars

\* Between two runs the operator adds the second address to data/addresses.csv.
AddressAdded ==
  /\ scanPc = "idle"
  /\ addressesCsv = <<"0xOWNER">>
  /\ addressesCsv' = Append(addressesCsv, "0xOTHER")
  /\ storeLog' = Append(storeLog, StoreEvent("added", addressesCsv', 0, 0, FALSE, <<>>))
  /\ UNCHANGED <<env, stateFile, lpState, scanPc, todo, runStart, queries, runNo, onChain,
                 discArgs, discovered, positionsCsv>>
  /\ UNCHANGED engineVars
  /\ UNCHANGED schedVars

InitStore ==
  /\ env \in ScanEnvs
  /\ EngineInit
  /\ SchedIdle
  /\ stateFile = EmptyMap /\ lpState = EmptyMap /\ scanPc = "idle" /\ todo = <<>>
  /\ runStart = EmptyMap /\ queries = <<>> /\ runNo = 0
  /\ onChain = StoreChain
  /\ discArgs = <<>>
  /\ discovered = <<>>
  /\ addressesCsv \in {<<"0xOWNER">>, <<"0xOWNER", "0xOTHER">>}
  /\ positionsCsv = <<>>
  /\ storeLog = <<>>

NextStore == MainStart \/ MainDiscoverAndAppend \/ MainSave \/ MainFails \/ AddressAdded

SpecStore == InitStore /\ [][NextStore]_vars

\* The start block of the first run: the configured one, 0 when none is set
InitialStartBlock == getStartBlock(EmptyMap, "FLR", "ENOSYS_LP", "ENOSYS_LP_START_BLOCK")

\* The last thing that happened is a run that went through to saveLpState.
RunCompleted ==
  /\ scanPc = "idle"
  /\ storeLog # <<>>
  /\ storeLog[Len(storeLog)].kind = "saved"

InStore(row) == \E n \in 1..Len(positionsCsv) : positionsCsv[n] = row

\* Token received by the owner in a block the runs have passed, and still owned
ReceivedAndOwned(owner, log) ==
  /\ getAddress(log.to) = getAddress(owner)
  /\ log.blockNumber >= InitialStartBlock
  /\ log.blockNumber <= stateFile[<<"FLR", "ENOSYS_LP">>]
  /\ getAddress(onChain.ownerOf[log.tokenId]) = getAddress(owner)

NoLostPositions ==
  \A i \in 1..Len(addressesCsv) : \A n \in 1..Len(onChain.logs) :
    ReceivedAndOwned(addressesCsv[i], onChain.logs[n])
      => InStore(PositionRow(LP_CONTRACTS_FLR[1], addressesCsv[i], onChain.logs[n].tokenId))

\* C28: after a discovery run, every token transferred to a configured owner at
\* or after the initial start block, in a block the runs have passed, and owned
\* by that owner now, has its row in the position store; also for an owner added
\* after earlier runs advanced the checkpoint, and also when a log fetch failed.
C28_NoLostPositions == RunCompleted => NoLostPositions

\* No getLogs call failed in any run and the address list is the one of the first run.
NoFetchFailedNoAddressAdded ==
  \A e \in 1..Len(storeLog) : ~storeLog[e].logsFailed /\ storeLog[e].kind # "added"

\* Every run so far went through to saveLpState.
NoRunFailed == \A e \in 1..Len(storeLog) : storeLog[e].kind # "failed"

\* What the code does keep: no position is lost as long as every log
\* fetch returned and no address was added after the first run.
NoLossWithoutFailureOrNewOwner ==
  (RunCompleted /\ NoFetchFailedNoAddressAdded) => NoLostPositions

\* C29: over any sequence of discovery runs the position store never holds two
\* rows with the same (chain, protocol, contract, owner, tokenId).
C29_NoDuplicateRows ==
  \A i \in 1..Len(positionsCsv) : \A j \in 1..Len(positionsCsv) :
    positionsCsv[i] = positionsCsv[j] => i = j

\* What the code does keep: no row is stored twice as long as every run completed
\* and no later run found a token received in the block it started at.
NoDuplicateWithoutRescan ==
  (NoRunFailed
   /\ \A e \in 1..Len(storeLog) : \A r \in 1..Len(storeLog[e].rows) :
        \A n \in 1..Len(onChain.logs) :
          onChain.logs[n].tokenId = storeLog[e].rows[r].tokenId
            => (onChain.logs[n].blockNumber # storeLog[e].startBlock
                \/ storeLog[e].startBlock = InitialStartBlock))
    => C29_NoDuplicateRows

-----------------------------------------------------------------------------
(* The stored AlertRecords *)

\* C37: every stored AlertRecord has a non-null signature exactly when it is
\* active: an active record carries the signature of the last notified
\* classification, an inactive record carries null.
C37_RecordWellFormed ==
  \A k \in DOMAIN alertState :
    (alertState[k].signature # Null) <=> alertState[k].isActive

\* One key holds an active record with a signature while another key was
\* resolved and holds the inactive record.
C37_Witness ==
  \E k1 \in DOMAIN alertState, k2 \in DOMAIN alertState :
    /\ alertState[k1].isActive /\ alertState[k1].signature # Null
    /\ ~alertState[k2].isActive
    /\ \E n \in 1..Len(calls) : calls[n].key = k2 /\ calls[n].prev.isActive

-----------------------------------------------------------------------------
(* classifyRedemptionTier over pairs of interest rates against one global rate *)

\* .env: redemption thresholds with belowHigh <= belowMed <= 0 <= neutralAbs, the
\* neutral band narrower than, equal to and wider than the distance to belowMed
RedemptionEnvs ==
  {[set |-> TRUE,
    LIQ_BUFFER_WARN |-> 200, LIQ_BUFFER_HIGH |-> 100, LIQ_BUFFER_CRIT |-> 50,
    REDEMP_BELOW_HIGH |-> red[1], REDEMP_BELOW_MED |-> red[2], REDEMP_NEUTRAL_ABS |-> red[3],
    CDP_REDEMPTION_TRIGGER |-> 990,
    LIQ_ALERT_MIN_TIER |-> "MEDIUM", REDEMP_ALERT_MIN_TIER |-> "MEDIUM",
    LP_ALERT_MIN_TIER |-> "HIGH",
    LP_EDGE_WARN_FRAC |-> 100, LP_EDGE_HIGH_FRAC |-> 50,
    LP_OUT_WARN_FRAC |-> 50, LP_OUT_HIGH_FRAC |-> 200] :
      red \in {<<-100, -50, 25>>, <<-100, -50, 50>>, <<-100, -50, 75>>, <<-50, -50, 0>>,
               <<0, 0, 0>>}}

\* The interest rates of two troves of one branch, in hundredths of a point
PairedInterestPcts == {350, 400, 425, 450, 460, 475, 500, 525, 560, 600}

PairedGlobalPcts == {450, 500}

\* classifyRedemptionTier is called for two troves against the same global rate.
ClassifyRedemptionPair ==
  \E i1 \in PairedInterestPcts, i2 \in PairedInterestPcts, g \in PairedGlobalPcts :
    /\ classified' =
         <<[kind |-> "REDEMPTION", tier |-> classifyRedemptionTier(Some(i1), Some(g)),
            interestPct |-> Some(i1), globalPct |-> Some(g)],
           [kind |-> "REDEMPTION", tier |-> classifyRedemptionTier(Some(i2), Some(g)),
            interestPct |-> Some(i2), globalPct |-> Some(g)]>>
    /\ UNCHANGED <<env, alertState, calls, last, liqTrace, evaluated, discord, startup,
                   dmTasks, inbox>>
    /\ UNCHANGED schedVars
    /\ UNCHANGED scanVars

InitRedemption == env \in RedemptionEnvs /\ EngineInit /\ SchedIdle /\ ScanIdle

SpecRedemption == InitRedemption /\ [][ClassifyRedemptionPair]_vars

\* belowHigh <= belowMed <= 0 <= neutralAbs
RedemptionThresholdsOrdered ==
  /\ env.REDEMP_BELOW_HIGH <= env.REDEMP_BELOW_MED
  /\ env.REDEMP_BELOW_MED <= 0
  /\ 0 <= env.REDEMP_NEUTRAL_ABS

\* The delta of a classified trove against the reference rate
InterestDelta(c) == c.interestPct[1] - c.globalPct[1]

\* The position of a tier in LOW < NEUTRAL < MEDIUM < HIGH
RedemptionRank(tier) == IndexOf(REDEMP_TIER_ORDER, tier)

MonotoneInDelta ==
  (Len(classified) = 2 /\ InterestDelta(classified[1]) <= InterestDelta(classified[2]))
    => RedemptionRank(classified[1].tier) >= RedemptionRank(classified[2].tier)

\* C38: with belowHigh <= belowMed <= 0 <= neutralAbs, of two deltas d1 <= d2
\* against the same reference rate the tier of d1 is at least as high in
\* LOW < NEUTRAL < MEDIUM < HIGH as the tier of d2.
C38_RedemptionMonotone == RedemptionThresholdsOrdered => MonotoneInDelta

\* What the code does keep: the tier is monotone in the delta when the neutral
\* band reaches down to the MEDIUM threshold (-belowMed <= neutralAbs).
MonotoneWhenNeutralReachesMedium ==
  (RedemptionThresholdsOrdered /\ -env.REDEMP_BELOW_MED <= env.REDEMP_NEUTRAL_ABS)
    => MonotoneInDelta

-----------------------------------------------------------------------------
(* The passes of onReady: how they end *)

\* C32: whenever a pass ends, normally or because monitorLoans or monitorLPs
\* threw, the running flag is cleared, and a scheduler tick that arrives while
\* no pass is in flight starts a new pass: a failed pass never disables later
\* passes.
C32_GuardRelease ==
  [][/\ (DOMAIN passes' = {} => ~isMonitorRunning')
     /\ ((tickNo' # tickNo /\ DOMAIN passes = {}) => DOMAIN passes' # {})]_vars

\* A pass ended because one of the monitors threw, and a later tick has started
\* the pass that is now in flight.
C32_Witness ==
  /\ "rejected" \in {lastPass.monitorLoans, lastPass.monitorLPs}
  /\ \E id \in DOMAIN passes : id > lastPass.id
  /\ tickLog[Len(tickLog)].did = "started"

\* C33: in every pass, liquidity positions are monitored after loan positions,
\* also when loan monitoring as a whole fails with an exception.
C33_BothKindsEveryPass ==
  lastPass # NoPass => lastPass.monitorLPs \in {"resolved", "rejected"}

\* What the code does keep: monitorLPs is called in every pass whose monitorLoans
\* returned.
LpsMonitoredAfterLoansReturn ==
  lastPass.monitorLoans = "resolved" => lastPass.monitorLPs \in {"resolved", "rejected"}

-----------------------------------------------------------------------------
(* monitorLPs over positions that differ in one field only *)

\* The rows monitorLPs evaluates, with the protocol of their config entry: position
\* 1 and positions that differ from it in the chain, in the contract, in the owner
\* and in the token id only.
KeyLpPositions ==
  <<[protocol |-> "ENOSYS_LP", chain |-> "FLR", contract |-> "0xD9770b1C",
     owner |-> "0xOWNER", tokenId |-> "7"],
    [protocol |-> "ENOSYS_LP", chain |-> "SGB", contract |-> "0xD9770b1C",
     owner |-> "0xOWNER", tokenId |-> "7"],
    [protocol |-> "ENOSYS_LP", chain |-> "FLR", contract |-> "0xEE5FF5Bc",
     owner |-> "0xOWNER", tokenId |-> "7"],
    [protocol |-> "ENOSYS_LP", chain |-> "FLR", contract |-> "0xD9770b1C",
     owner |-> "0xOTHER", tokenId |-> "7"],
    [protocol |-> "ENOSYS_LP", chain |-> "FLR", contract |-> "0xD9770b1C",
     owner |-> "0xOWNER", tokenId |-> "8"]>>

\* a position deep in its range or far out of it
KeyLpReads == {r \in LpReads : r.ok /\ r.liquidity = 1 /\ r.pool.ok /\ r.pool.tick # 102}

\* One pass of monitorLPs over these rows
MonitorKeyedLPs ==
  \E readsOf \in [1..Len(KeyLpPositions) -> KeyLpReads] :
    LET res == monitorLpPositions(KeyLpPositions, alertState, 1, readsOf) IN
    /\ alertState' = res.state
    /\ last' = res.calls
    /\ evaluated' = res.rows
    /\ UNCHANGED <<env, calls, liqTrace, classified, discord, startup, dmTasks, inbox>>
    /\ UNCHANGED schedVars
    /\ UNCHANGED scanVars

SpecKeys == InitLp /\ [][MonitorKeyedLPs]_vars

\* Rows i and j of the pass were both submitted to the alert engine.
BothSubmitted(i, j) ==
  /\ i \in 1..Len(evaluated) /\ j \in 1..Len(evaluated)
  /\ evaluated[i].submitted # <<>> /\ evaluated[j].submitted # <<>>

SameAlertRecord(i, j) == evaluated[i].submitted[1].key = evaluated[j].submitted[1].key

\* C35: two distinct positions of the same alert kind, differing in chain, NFT
\* contract, owner or position id, never share an AlertRecord.
C35_KeysSeparatePositions ==
  \A i \in 1..Len(KeyLpPositions) : \A j \in 1..Len(KeyLpPositions) :
    (i # j /\ BothSubmitted(i, j)) => ~SameAlertRecord(i, j)

\* What the code does keep: positions that differ in protocol, owner or token id
\* have records of their own.
KeysSeparateOwnersAndIds ==
  \A i \in 1..Len(KeyLpPositions) : \A j \in 1..Len(KeyLpPositions) :
    (/\ BothSubmitted(i, j)
     /\ \/ KeyLpPositions[i].protocol # KeyLpPositions[j].protocol
        \/ KeyLpPositions[i].owner # KeyLpPositions[j].owner
        \/ KeyLpPositions[i].tokenId # KeyLpPositions[j].tokenId)
      => ~SameAlertRecord(i, j)

\* The out-of-range position of one chain was notified as NEW although its alert
\* was active: the in-range position of the other chain had resolved it.
OtherPositionResolvedAlert ==
  /\ BothSubmitted(1, 2)
  /\ evaluated[1].submitted[1].dm = "NEW"
  /\ ~evaluated[2].submitted[1].isActive /\ evaluated[2].submitted[1].prev.isActive

-----------------------------------------------------------------------------
(* monitorLPs over the position store while tokens change hands *)

\* Discovery found tokens 7 and 8 with the first owner and stored their rows.
OwnedAtDiscovery ==
  [logs |-> <<>>, ownerOf |-> [t \in {"7", "8"} |-> "0xOWNER"]]

\* a position read that throws, or a position in range and out of range by 10 and
\* by 50 per cent of its width
StoredLpReads ==
  {r \in LpGateReads : ~r.ok \/ (r.liquidity = 1 /\ r.pool.ok /\ r.pool.tick \in {50, 110, 150})}

\* One pass of monitorLPs over the rows of the position store
MonitorStoredLPs ==
  \E readsOf \in [1..Len(positionsCsv) -> StoredLpReads] :
    LET res == monitorLpPositions(positionsCsv, alertState, 1, readsOf) IN
    /\ alertState' = res.state
    /\ last' = res.calls
    /\ evaluated' = res.rows
    /\ UNCHANGED <<env, calls, liqTrace, classified, discord, startup, dmTasks, inbox>>
    /\ UNCHANGED schedVars
    /\ UNCHANGED scanVars

\* Between two passes a token of the store is transferred to another address.
TokenTransferred ==
  \E t \in DOMAIN onChain.ownerOf :
    /\ onChain.ownerOf[t] = "0xOWNER"
    /\ onChain' = [onChain EXCEPT !.ownerOf[t] = "0xOTHER"]
    /\ UNCHANGED <<env, stateFile, lpState, scanPc, todo, runStart, queries, runNo, discArgs,
                   discovered>>
    /\ UNCHANGED storeVars
    /\ UNCHANGED engineVars
    /\ UNCHANGED schedVars

InitOwned ==
  /\ env \in LpEnvs
  /\ EngineInit
  /\ SchedIdle
  /\ stateFile = EmptyMap /\ lpState = EmptyMap /\ scanPc = "idle" /\ todo = <<>>
  /\ runStart = EmptyMap /\ queries = <<>> /\ runNo = 0
  /\ discArgs = <<>> /\ discovered = <<>>
  /\ onChain = OwnedAtDiscovery
  /\ addressesCsv = <<"0xOWNER">>
  /\ positionsCsv = <<PositionRow(LP_CONTRACTS_FLR[1], "0xOWNER", "7"),
                      PositionRow(LP_CONTRACTS_FLR[1], "0xOWNER", "8")>>
  /\ storeLog = <<>>

NextOwned == MonitorStoredLPs \/ TokenTransferred

SpecOwned == InitOwned /\ [][NextOwned]_vars

\* The pass sent a DM for row i.
Notified(rows, i) == rows[i].submitted # <<>> /\ rows[i].submitted[1].dm # "NONE"

\* C34: every position for which a monitoring pass sends a notification is, at
\* the time of that pass, owned by the owner recorded for it in the position
\* store; a position transferred away is no longer alerted on.
C34_AlertsOnlyForOwned ==
  [][alertState' # alertState
       => \A i \in 1..Len(evaluated') :
            Notified(evaluated', i)
              => getAddress(onChain'.ownerOf[positionsCsv[i].tokenId])
                   = getAddress(positionsCsv[i].owner)]_vars

-----------------------------------------------------------------------------
(* Positions a pass leaves out of alert evaluation *)

\* The alert keys of row n of a pass over PassLoanPositions and PassLpPositions
PassAlertKeys(n) ==
  IF n <= Len(PassLoanPositions)
  THEN LET row == PassLoanPositions[n]
       IN {buildAlertKey("LIQUIDATION", row.protocol, row.owner, row.troveId),
           buildAlertKey("REDEMPTION", row.protocol, row.owner, row.troveId)}
  ELSE LET row == PassLpPositions[n - Len(PassLoanPositions)]
       IN {buildAlertKey("LP_RANGE", row.protocol, row.owner, row.tokenId)}

\* Row n was visited by the latest pass and nothing was submitted for it: its
\* chain read threw, its loan had no price, or its liquidity was zero.
LeftOut(n) == n \in 1..Len(evaluated) /\ evaluated[n].submitted = <<>>

\* C31: whenever a position that has an Active alert is left out of alert
\* evaluation in a pass, that alert is resolved, so that a later re-occurrence
\* of the same condition at the same tier sends a NEW notification.
C31_AlertResolvedWhenLeftOut ==
  \A n \in 1..Len(evaluated) :
    LeftOut(n) => \A k \in PassAlertKeys(n) : ~PrevRecord(alertState, k).isActive

-----------------------------------------------------------------------------
(* sendDm as the asynchronous function it is: processAlert starts it and goes on;
   it awaits client.users.fetch, then user.send, and each await of each invocation
   settles when the Discord client settles it. *)

MaxDmTasks == 4

\* The arguments of the four handleLiquidationAlert calls of /test-loan-liq
TestLoanLiqSteps ==
  <<[protocol |-> "TEST_LIQ_PROTOCOL", wallet |-> "0xTEST_WALLET",
     positionId |-> "TEST_LIQ_POSITION", isActive |-> TRUE, tier |-> "MEDIUM"],
    [protocol |-> "TEST_LIQ_PROTOCOL", wallet |-> "0xTEST_WALLET",
     positionId |-> "TEST_LIQ_POSITION", isActive |-> TRUE, tier |-> "HIGH"],
    [protocol |-> "TEST_LIQ_PROTOCOL", wallet |-> "0xTEST_WALLET",
     positionId |-> "TEST_LIQ_POSITION", isActive |-> TRUE, tier |-> "CRITICAL"],
    [protocol |-> "TEST_LIQ_PROTOCOL", wallet |-> "0xTEST_WALLET",
     positionId |-> "TEST_LIQ_POSITION", isActive |-> FALSE, tier |-> "LOW"]>>

\* The synchronous part of sendDm: with a client it runs up to `await
\* client.users.fetch(DM_USER_ID)` and the invocation is in flight from there.
StartSendDm(tasks, call) ==
  IF call.dm = "NONE" THEN tasks
  ELSE Append(tasks, [key |-> call.key, phase |-> call.dm, tier |-> call.tier,
                      pc |-> "users.fetch"])

\* Handler calls made one after the other without an await between them: the
\* engine's map after them and the sendDm invocations they started, in call order.
RECURSIVE HandleInTurn(_, _, _, _)
HandleInTurn(st, tasks, steps, i) ==
  IF i > Len(steps) THEN [state |-> st, tasks |-> tasks]
  ELSE LET res == handleLiquidationAlert(st, steps[i])
       IN HandleInTurn(res.state, StartSendDm(tasks, res.call), steps, i + 1)

AsyncStep(st, tasks) ==
  /\ alertState' = st
  /\ dmTasks' = tasks
  /\ UNCHANGED <<env, calls, last, liqTrace, classified, evaluated, discord, startup, inbox>>
  /\ UNCHANGED schedVars
  /\ UNCHANGED scanVars

\* /test-loan-liq: execute() makes its four handler calls in one turn.
TestLoanLiqExecute ==
  LET res == HandleInTurn(alertState, dmTasks, TestLoanLiqSteps, 1) IN
  /\ Len(res.tasks) <= MaxDmTasks
  /\ res.tasks # dmTasks
  /\ AsyncStep(res.state, res.tasks)

\* A monitoring pass submits one classification of the position.
PassSubmitsAlert ==
  \E i \in 1..Len(TestLoanLiqSteps) :
    LET res == HandleInTurn(alertState, dmTasks, <<TestLoanLiqSteps[i]>>, 1) IN
    /\ Len(res.tasks) <= MaxDmTasks
    /\ res.state # alertState
    /\ AsyncStep(res.state, res.tasks)

TaskStep(tasks, delivered) ==
  /\ dmTasks' = tasks
  /\ inbox' = delivered
  /\ UNCHANGED <<env, alertState, calls, last, liqTrace, classified, evaluated, discord,
                 startup>>
  /\ UNCHANGED schedVars
  /\ UNCHANGED scanVars

\* await client.users.fetch(DM_USER_ID) of one invocation settles: with the user,
\* and the invocation goes on to user.send; or not, and the invocation returns.
UsersFetchSettles ==
  \E n \in 1..Len(dmTasks), ok \in BOOLEAN :
    /\ dmTasks[n].pc = "users.fetch"
    /\ TaskStep([dmTasks EXCEPT ![n].pc = IF ok THEN "user.send" ELSE "returned"], inbox)

\* await user.send(...) of one invocation settles: the DM has arrived, or the
\* rejection is caught and logged.
UserSendSettles ==
  \E n \in 1..Len(dmTasks), ok \in BOOLEAN :
    /\ dmTasks[n].pc = "user.send"
    /\ TaskStep([dmTasks EXCEPT ![n].pc = "returned"],
                IF ok THEN Append(inbox, [key |-> dmTasks[n].key, phase |-> dmTasks[n].phase,
                                          tier |-> dmTasks[n].tier, task |-> n])
                ELSE inbox)

InitOrder == env = NoEnv /\ EngineInit /\ SchedIdle /\ ScanIdle

NextOrder == TestLoanLiqExecute \/ PassSubmitsAlert \/ UsersFetchSettles \/ UserSendSettles

SpecOrder == InitOrder /\ [][NextOrder]_vars

\* C36: for one alert key, the DMs arrive in the order in which the transitions
\* happened, also when several transitions are processed without waiting for
\* the previous DM to be delivered.
C36_NotificationOrder ==
  \A i \in 1..Len(inbox) : \A j \in 1..Len(inbox) :
    (i < j /\ inbox[i].key = inbox[j].key) => inbox[i].task < inbox[j].task

\* What the code does keep: sendDm is called in the order of the transitions,
\* and a DM that arrives while no other invocation is in flight is in order.
OrderedWhenDeliveredOneAtATime ==
  [][(\A n \in 1..Len(dmTasks) : dmTasks[n].pc = "returned" \/ n = Len(dmTasks))
       => (\A i \in 1..Len(inbox') : \A j \in 1..Len(inbox') :
             (i < j /\ j = Len(inbox') /\ Len(inbox') > Len(inbox))
               => inbox'[i].task < inbox'[j].task)]_vars

====
